---- MODULE Spec2Model ----
(***************************************************************************)
(* A model of the lines-of-code fetcher (fetchLoc) and of the HTTP handler *)
(* that calls it.  Two versions of fetchLoc live in the repository: the    *)
(* one of src/fetchers/loc.js, which fetches the repositories' statistics  *)
(* one after the other, and the one that fetches them in parallel with     *)
(* Promise.allSettled.  The variable "variant" says which one runs.        *)
(*                                                                         *)
(* Strings are sequences of one-character strings, so that trimming,       *)
(* splitting, lower-casing and key building are computed, not assumed.     *)
(***************************************************************************)
EXTENDS Integers, Sequences, FiniteSets, TLC

VARIABLES
    variant,      \* "loc" (sequential fetchLoc) or "par" (parallel fetchLoc)
    caller,       \* "none", "direct" (fetchLoc called as a function), "handler"
    username,     \* the identity: the request's username, fetchLoc's first argument
    include_orgs, \* the request's include_orgs, fetchLoc's second argument
    pc,           \* where fetchLoc is: "idle", "userList", "orgList", "stats",
                  \* "returned", "rejected"
    orgs,         \* the parsed organization list
    orgIdx,       \* the organization whose listing is awaited
    srcLog,       \* what each discovery source answered, in the order asked
    rawRepos,     \* repos before deduplication
    repos,        \* repos after deduplication
    fetch,        \* per repository: the state of its statistics fetch
    cur,          \* sequential fetchLoc: the repository being fetched
    completed,    \* the repositories whose fetch has settled, in completion order
    weeklyMap,    \* week key (a string) -> [a, d, c]
    ret,          \* what fetchLoc returned or threw
    listReqs,     \* number of repository-listing requests issued
    hpc,          \* where the handler is: "idle", "awaitFetch", "sent"
    sends,        \* what the handler passed to res.send, in order
    query,        \* the request's options (req.query)
    headers,      \* what the handler passed to res.setHeader, in order
    caught,       \* what the handler's catch block caught
    renderer,     \* renderLocChart called on its own: which of the renderers
    data,         \* its first argument, a ContributionSeries
    options,      \* its second argument
    now,          \* Date.now() at the call, in days
    svg           \* what it returned

vars == <<variant, caller, username, include_orgs, pc, orgs, orgIdx, srcLog,
          rawRepos, repos, fetch, cur, completed, weeklyMap, ret, listReqs, hpc,
          sends, query, headers, caught, renderer, data, options, now, svg>>

\* The state of a call of renderLocChart on its own.
rvars == <<renderer, data, options, now, svg>>

----------------------------------------------------------------------------
(* Bounds of the model. *)

\* The most repositories the discovery sources return in one run, all together.
MaxRaw == 3

\* The most distinct repositories discovered in one run.
MaxRepos == 2

\* The most nodes one repository listing returns: what the discovered list
\* may hold beyond its distinct repositories.
MaxNodes == MaxRaw - MaxRepos

----------------------------------------------------------------------------
(* Strings. *)

\* String.prototype.toLowerCase on the model's alphabet.
LowerChar(c) ==
    CASE c = "A" -> "a"
      [] c = "B" -> "b"
      [] c = "U" -> "u"
      [] c = "X" -> "x"
      [] OTHER -> c

ToLowerCase(s) == [i \in 1..Len(s) |-> LowerChar(s[i])]

\* String.prototype.trim: white space is removed at both ends.
RECURSIVE TrimStart(_)
TrimStart(s) ==
    IF s # <<>> /\ Head(s) = " " THEN TrimStart(Tail(s)) ELSE s

RECURSIVE TrimEnd(_)
TrimEnd(s) ==
    IF s # <<>> /\ s[Len(s)] = " " THEN TrimEnd(SubSeq(s, 1, Len(s) - 1)) ELSE s

Trim(s) == TrimEnd(TrimStart(s))

\* String.prototype.split(","): the pieces between the commas, empty ones kept.
RECURSIVE SplitComma(_, _)
SplitComma(s, piece) ==
    IF s = <<>> THEN <<piece>>
    ELSE IF Head(s) = "," THEN <<piece>> \o SplitComma(Tail(s), <<>>)
    ELSE SplitComma(Tail(s), Append(piece, Head(s)))

\* Array.prototype.filter(Boolean) on strings: the empty string is falsy.
RECURSIVE FilterNonEmpty(_)
FilterNonEmpty(ps) ==
    IF ps = <<>> THEN <<>>
    ELSE IF Head(ps) = <<>> THEN FilterNonEmpty(Tail(ps))
    ELSE <<Head(ps)>> \o FilterNonEmpty(Tail(ps))

\* include_orgs ? include_orgs.split(",").map(trim).filter(Boolean) : []
ParseOrgs(io) ==
    IF io = <<>> THEN <<>>
    ELSE LET pieces == SplitComma(io, <<>>)
         IN  FilterNonEmpty([i \in 1..Len(pieces) |-> Trim(pieces[i])])

----------------------------------------------------------------------------
(* Repository deduplication. *)

\* `${r.owner}/${r.name}`
RepoKey(r) == r.owner \o <<"/">> \o r.name

\* repos.filter with the "seen" set: an entry is kept when its key is new.
\* A deduplication that keeps the last occurrence of a key, not the first.
RECURSIVE DedupeKeepLast(_, _)
DedupeKeepLast(rs, seen) ==
    IF rs = <<>> THEN <<>>
    ELSE IF \E j \in 2..Len(rs) : RepoKey(rs[j]) = RepoKey(Head(rs))
         THEN DedupeKeepLast(Tail(rs), seen)
         ELSE <<Head(rs)>> \o DedupeKeepLast(Tail(rs), seen)

RECURSIVE DedupeFrom(_, _)
DedupeFrom(rs, seen) ==
    IF rs = <<>> THEN <<>>
    ELSE LET key == RepoKey(Head(rs))
         IN  IF key \in seen THEN DedupeFrom(Tail(rs), seen)
             ELSE <<Head(rs)>> \o DedupeFrom(Tail(rs), seen \cup {key})

Dedupe(rs) == DedupeFrom(rs, {})

----------------------------------------------------------------------------
(* The provider's answers. *)

\* A repository listing is rejected (transport error, after the retry wrapper
\* gave up), answers without the user or organization, or answers with nodes.
ListRejected == [kind |-> "reject"]
ListNoEntity == [kind |-> "noEntity"]
ListNodes(ns) == [kind |-> "nodes", nodes |-> ns]

\* One week of a contributor entry: {w, a, d, c}, an entry without w, or null.
Week(w, a, d, c) == [kind |-> "week", w |-> w, a |-> a, d |-> d, c |-> c]
NoWWeek(a, d, c) == [kind |-> "noW", a |-> a, d |-> d, c |-> c]
NullWeek == [kind |-> "null"]

\* One contributor entry: author may be missing, weeks may be missing.
Contributor(login, ws) ==
    [hasAuthor |-> TRUE, login |-> login, hasWeeks |-> TRUE, weeks |-> ws]
ContributorNoWeeks(login) ==
    [hasAuthor |-> TRUE, login |-> login, hasWeeks |-> FALSE, weeks |-> <<>>]
ContributorNoAuthor(ws) ==
    [hasAuthor |-> FALSE, login |-> <<>>, hasWeeks |-> TRUE, weeks |-> ws]

\* A statistics response body: a list of contributor entries, or something else.
ArrayBody(es) == [isArray |-> TRUE, entries |-> es]
NotArrayBody == [isArray |-> FALSE, entries |-> <<>>]

StatsRejected == [kind |-> "reject"]
StatsHttp(status, body) == [kind |-> "http", status |-> status, body |-> body]

----------------------------------------------------------------------------
(* Matching the contributor, merging the weeks, building the series. *)

\* A find that compares the logins as they are written.
RECURSIVE FindContributorExact(_, _)
FindContributorExact(entries, u) ==
    IF entries = <<>> THEN [kind |-> "null"]
    ELSE LET c == Head(entries)
         IN  IF c.hasAuthor /\ c.login = u
             THEN [kind |-> "contributor", c |-> c]
             ELSE FindContributorExact(Tail(entries), u)

\* res.data.find((c) => c.author &&
\*     c.author.login.toLowerCase() === username.toLowerCase()) || null
RECURSIVE FindContributor(_, _)
FindContributor(entries, u) ==
    IF entries = <<>> THEN [kind |-> "null"]
    ELSE LET c == Head(entries)
         IN  IF c.hasAuthor /\ ToLowerCase(c.login) = ToLowerCase(u)
             THEN [kind |-> "contributor", c |-> c]
             ELSE FindContributor(Tail(entries), u)

\* The property name a week is stored under: weeklyMap[week.w].
WeekKey(e) == IF e.kind = "week" THEN ToString(e.w) ELSE "undefined"

\* A merge without the all-zero test: a week of zeros creates its slot.
MergeWeekNoSkip(map, e) ==
    LET key  == WeekKey(e)
        slot == IF key \in DOMAIN map THEN map[key]
                ELSE [a |-> 0, d |-> 0, c |-> 0]
    IN  [k \in DOMAIN map \cup {key} |->
            IF k = key
            THEN [a |-> slot.a + e.a, d |-> slot.d + e.d, c |-> slot.c + e.c]
            ELSE map[k]]

\* A merge that assigns the week's figures to the slot instead of adding them.
MergeWeekOverwrite(map, e) ==
    IF e.a = 0 /\ e.d = 0 /\ e.c = 0 THEN map
    ELSE LET key == WeekKey(e)
         IN  [k \in DOMAIN map \cup {key} |->
                 IF k = key THEN [a |-> e.a, d |-> e.d, c |-> e.c] ELSE map[k]]

\* The body of the loop over a contributor's weeks, for one well-formed week.
MergeWeek(map, e) ==
    IF e.a = 0 /\ e.d = 0 /\ e.c = 0 THEN map
    ELSE LET key  == WeekKey(e)
             slot == IF key \in DOMAIN map THEN map[key]
                     ELSE [a |-> 0, d |-> 0, c |-> 0]
         IN  [k \in DOMAIN map \cup {key} |->
                 IF k = key
                 THEN [a |-> slot.a + e.a, d |-> slot.d + e.d, c |-> slot.c + e.c]
                 ELSE map[k]]

\* for (const week of weeks) { ... }: reading week.a of a null entry throws, and
\* what was merged before it stays merged.
RECURSIVE MergeWeekList(_, _)
MergeWeekList(map, ws) ==
    IF ws = <<>> THEN [map |-> map, threw |-> FALSE]
    ELSE IF Head(ws).kind = "null" THEN [map |-> map, threw |-> TRUE]
    ELSE MergeWeekList(MergeWeek(map, Head(ws)), Tail(ws))

\* The loop over contributor.weeks: a missing weeks list is not iterable.
MergeContributor(map, c) ==
    IF ~c.hasWeeks THEN [map |-> map, threw |-> TRUE]
    ELSE MergeWeekList(map, c.weeks)

\* Number(key) for a property name of weeklyMap.
MaxStamp == 3
IsNumericKey(k) == \E n \in 0..MaxStamp : ToString(n) = k
NumberOf(k) == CHOOSE n \in 0..MaxStamp : ToString(n) = k

\* .sort((a, b) => a - b) on a set of numbers.
RECURSIVE SortAsc(_)
SortAsc(ns) ==
    IF ns = {} THEN <<>>
    ELSE LET m == CHOOSE x \in ns : \A y \in ns : x <= y
         IN  <<m>> \o SortAsc(ns \ {m})

\* A total that adds d.a whatever the field.
RECURSIVE AccumulateAdditions(_, _, _)
AccumulateAdditions(map, weeks, field) ==
    IF weeks = <<>> THEN 0
    ELSE map[ToString(Head(weeks))].a + AccumulateAdditions(map, Tail(weeks), field)

\* let total = 0; weeks.map((w) => { total += weeklyMap[w][field]; ... })
RECURSIVE Accumulate(_, _, _)
Accumulate(map, weeks, field) ==
    IF weeks = <<>> THEN 0
    ELSE map[ToString(Head(weeks))][field] + Accumulate(map, Tail(weeks), field)

\* Step 3 of fetchLoc: the sorted weekly array and the totals.  A key that is
\* not a number becomes NaN, weeklyMap[NaN] is undefined and reading d.a throws.
BuildSeries(map) ==
    IF \E k \in DOMAIN map : ~IsNumericKey(k)
    THEN [kind |-> "error", name |-> "TypeError"]
    ELSE LET weeks == SortAsc({NumberOf(k) : k \in DOMAIN map})
             weeklyData == [i \in 1..Len(weeks) |->
                 LET d == map[ToString(weeks[i])]
                 IN  [week |-> weeks[i], additions |-> d.a,
                      deletions |-> d.d, commits |-> d.c]]
             totalAdditions == Accumulate(map, weeks, "a")
             totalDeletions == Accumulate(map, weeks, "d")
             totalCommits == Accumulate(map, weeks, "c")
         IN  [kind |-> "series",
              weeklyData |-> weeklyData,
              totalAdditions |-> totalAdditions,
              totalDeletions |-> totalDeletions,
              totalCommits |-> totalCommits,
              netLines |-> totalAdditions - totalDeletions]

EmptyMap == [k \in {} |-> [a |-> 0, d |-> 0, c |-> 0]]

----------------------------------------------------------------------------
(* The inputs the model draws from. *)

\* The identity: absent (the empty string) or "U".
Usernames == {<<>>, <<"U">>}

\* include_orgs: absent, "a,b", " A,,a" and "a,a".
IncludeOrgsInputs ==
    {<<>>, <<"a", ",", "b">>, <<" ", "A", ",", ",", "a">>, <<"a", ",", "a">>}

RepoNames == {<<"r">>}
OwnerLogins == {<<"u">>, <<"a">>}

SeqsUpTo(set, n) == UNION {[1..k -> set] : k \in 0..n}

\* The weeks lists of the identity's entry: one week; an all-zero week before
\* another; two weeks, the later first; a null entry after a week; an entry
\* without w.
WeekLists ==
    {<<Week(1, 1, 0, 1)>>,
     <<Week(1, 0, 0, 0), Week(2, 2, 1, 1)>>,
     <<Week(2, 1, 3, 1), Week(1, 1, 0, 1)>>,
     <<Week(1, 1, 0, 1), NullWeek>>,
     <<NoWWeek(1, 0, 0)>>}

\* The user's listing: nodes {name, owner: {login}}.
UserNodeLists ==
    SeqsUpTo([owner : OwnerLogins, name : RepoNames], MaxNodes)

\* An organization's listing: nodes {name}.
OrgNodeLists == SeqsUpTo(RepoNames, MaxNodes)

ListResponses(nodeLists) ==
    {ListRejected, ListNoEntity} \cup {ListNodes(ns) : ns \in nodeLists}

\* Statistics bodies: not a list, the empty list, a list with one entry of the
\* identity (login "u" for the identity "U"), and a list where entries without
\* author and of other logins come before two entries of the identity.
StatsBodies ==
    {NotArrayBody, ArrayBody(<<>>), ArrayBody(<<ContributorNoWeeks(<<"u">>)>>)}
    \cup {ArrayBody(<<Contributor(<<"u">>, ws)>>) : ws \in WeekLists}
    \cup {ArrayBody(<<ContributorNoAuthor(<<Week(2, 2, 1, 1)>>),
                      Contributor(<<"x">>, <<Week(1, 1, 0, 1)>>),
                      Contributor(<<"u">>, <<Week(2, 2, 1, 1)>>),
                      Contributor(<<"U">>, <<Week(1, 1, 0, 1)>>)>>)}

\* A statistics request is rejected (transport error, timeout), or answered:
\* 200 with a body, 202 ("computing") or 403, both with a body that is no list.
StatsResponses ==
    {StatsRejected, StatsHttp(202, NotArrayBody), StatsHttp(403, NotArrayBody)}
    \cup {StatsHttp(200, b) : b \in StatsBodies}

----------------------------------------------------------------------------
(* The state after construction: nothing has been called. *)

\* A query parameter that the request does not carry.
Undefined == "undefined"

\* req.query without username and include_orgs: the colors, the border flag,
\* the title, the cache time, and the theme, border color and months window.
QueryNames ==
    {"bg_color", "line_color", "area_color", "point_color", "title_color",
     "text_color", "hide_border", "custom_title", "cache_seconds", "theme",
     "border_color", "months"}

NoQuery == [n \in QueryNames |-> Undefined]

NoRet == [kind |-> "none"]

\* Nothing has been called: fetchLoc and the handler are idle.
NothingCalled ==
    /\ caller = "none"
    /\ username = <<>>
    /\ include_orgs = <<>>
    /\ pc = "idle"
    /\ orgs = <<>>
    /\ orgIdx = 0
    /\ srcLog = <<>>
    /\ rawRepos = <<>>
    /\ repos = <<>>
    /\ fetch = <<>>
    /\ cur = 0
    /\ completed = <<>>
    /\ weeklyMap = EmptyMap
    /\ ret = NoRet
    /\ listReqs = 0
    /\ hpc = "idle"
    /\ sends = <<>>
    /\ query = NoQuery
    /\ headers = <<>>
    /\ caught = NoRet

Init ==
    /\ variant \in {"loc", "par"}
    /\ NothingCalled
    /\ renderer = "none"
    /\ data = NoRet
    /\ options = NoQuery
    /\ now = 0
    /\ svg = NoRet

----------------------------------------------------------------------------
(* fetchLoc. *)

\* setTimeout(r, 2000) of the sequential fetchLoc, setTimeout(r, 1500) of the
\* parallel one, in milliseconds.
RetryDelayLoc == 2000
RetryDelayPar == 1500
RetryDelay == IF variant = "loc" THEN RetryDelayLoc ELSE RetryDelayPar

\* The amounts of time, in milliseconds, that pass in one step of the clock.
TimeSteps == {1000, 2000}

Min(a, b) == IF a <= b THEN a ELSE b

\* A repository's statistics fetch: where it is (st) and its result, and for
\* the record the number of requests issued (reqs), whether the first response
\* was 202 (first202), how long the retry timer has run (waited) and whether
\* the last response's payload was a list (lastArr), and the entries of that
\* list (entries).
Unissued ==
    [st |-> "unissued", reqs |-> 0, first202 |-> FALSE, waited |-> 0,
     lastArr |-> FALSE, entries |-> <<>>, result |-> [kind |-> "none"]]
Issued == [Unissued EXCEPT !.st = "req1", !.reqs = 1]

IsArrayResp(resp) == resp.kind = "http" /\ resp.body.isArray

\* res.data when it is a list.
EntriesOf(resp) == IF IsArrayResp(resp) THEN resp.body.entries ELSE <<>>

MissingParamError == [kind |-> "error", name |-> "MissingParamError"]

\* A fetchLoc that requests the user's listing before it tests the username.
FetchLocEnterLate(u, io) ==
    /\ username' = u
    /\ include_orgs' = io
    /\ listReqs' = listReqs + 1
    /\ IF u = <<>>
       THEN pc' = "rejected" /\ ret' = MissingParamError
       ELSE pc' = "userList" /\ ret' = ret
    /\ UNCHANGED <<variant, orgs, orgIdx, srcLog, rawRepos, repos, fetch, cur,
                   completed, weeklyMap>>

\* if (!username) throw new MissingParamError(["username"]); otherwise the
\* user's listing is requested and awaited.
FetchLocEnter(u, io) ==
    /\ username' = u
    /\ include_orgs' = io
    /\ IF u = <<>>
       THEN /\ pc' = "rejected"
            /\ ret' = MissingParamError
            /\ listReqs' = listReqs
       ELSE /\ pc' = "userList"
            /\ ret' = ret
            /\ listReqs' = listReqs + 1
    /\ UNCHANGED <<variant, orgs, orgIdx, srcLog, rawRepos, repos, fetch, cur,
                   completed, weeklyMap>>

\* fetchLoc called as a function.
CallFetchLoc(u, io) ==
    /\ caller = "none"
    /\ caller' = "direct"
    /\ FetchLocEnter(u, io)
    /\ UNCHANGED <<hpc, sends, query, headers, caught>>
    /\ UNCHANGED rvars

\* What follows discovery, up to the next await: the deduplication, then the
\* statistics requests.  The parallel fetchLoc calls fetchOneRepo for every
\* repository, each issuing its request; the sequential one issues the first
\* repository's request, or returns the empty series when there is none.
AfterDiscovery(raw) ==
    LET rs == Dedupe(raw)
    IN  /\ repos' = rs
        /\ IF variant = "par"
           THEN /\ fetch' = [i \in 1..Len(rs) |-> Issued]
                /\ cur' = cur
                /\ pc' = "stats"
                /\ ret' = ret
           ELSE IF rs = <<>>
           THEN /\ fetch' = <<>>
                /\ cur' = cur
                /\ pc' = "returned"
                /\ ret' = BuildSeries(weeklyMap)
           ELSE /\ fetch' = [i \in 1..Len(rs) |-> IF i = 1 THEN Issued ELSE Unissued]
                /\ cur' = 1
                /\ pc' = "stats"
                /\ ret' = ret

\* repos.push({ owner: node.owner.login, name: node.name }) for every node of
\* the user's listing; nothing when it failed or answered without the user.
UserPushed(resp) ==
    IF resp.kind = "nodes"
    THEN [i \in 1..Len(resp.nodes) |->
             [owner |-> resp.nodes[i].owner, name |-> resp.nodes[i].name]]
    ELSE <<>>

\* An organization branch that pushes nothing.
OrgPushedNone(org, resp) == <<>>

\* repos.push({ owner: org, name: node.name }) for every node of an
\* organization's listing.
OrgPushed(org, resp) ==
    IF resp.kind = "nodes"
    THEN [i \in 1..Len(resp.nodes) |-> [owner |-> org, name |-> resp.nodes[i]]]
    ELSE <<>>

\* The record of one discovery source: the organization asked for (none for
\* the user's listing), whether the listing answered with nodes, and the nodes.
SourceRecord(org, resp) ==
    [org |-> org, ok |-> resp.kind = "nodes",
     nodes |-> IF resp.kind = "nodes" THEN resp.nodes ELSE <<>>]

\* The discovery responses the model lets through: the bounds on the number of
\* repositories.
WithinBounds(raw) == Len(raw) <= MaxRaw /\ Len(Dedupe(raw)) <= MaxRepos

\* The user's listing settles: its nodes are pushed (none when it failed or
\* answered without the user), the organization list is parsed, and the first
\* organization's listing is requested, or discovery ends.
UserListResponse(resp) ==
    LET pushed == UserPushed(resp)
        raw == rawRepos \o pushed
        os == ParseOrgs(include_orgs)
    IN  /\ pc = "userList"
        /\ WithinBounds(raw)
        /\ srcLog' = Append(srcLog, SourceRecord(<<>>, resp))
        /\ rawRepos' = raw
        /\ orgs' = os
        /\ IF os # <<>>
           THEN /\ pc' = "orgList"
                /\ orgIdx' = 1
                /\ listReqs' = listReqs + 1
                /\ UNCHANGED <<repos, fetch, cur, ret>>
           ELSE /\ AfterDiscovery(raw)
                /\ UNCHANGED <<orgIdx, listReqs>>
        /\ UNCHANGED <<variant, caller, username, include_orgs, completed, weeklyMap,
                       hpc, sends, query, headers, caught>>
        /\ UNCHANGED rvars

\* An organization's listing settles: its nodes are pushed under the
\* organization name as supplied, and the next organization's listing is
\* requested, or discovery ends.
OrgListResponse(resp) ==
    LET org == orgs[orgIdx]
        pushed == OrgPushed(org, resp)
        raw == rawRepos \o pushed
    IN  /\ pc = "orgList"
        /\ WithinBounds(raw)
        /\ srcLog' = Append(srcLog, SourceRecord(org, resp))
        /\ rawRepos' = raw
        /\ IF orgIdx < Len(orgs)
           THEN /\ orgIdx' = orgIdx + 1
                /\ listReqs' = listReqs + 1
                /\ UNCHANGED <<pc, repos, fetch, cur, ret>>
           ELSE /\ AfterDiscovery(raw)
                /\ UNCHANGED <<orgIdx, listReqs>>
        /\ UNCHANGED <<variant, caller, username, include_orgs, orgs, completed,
                       weeklyMap, hpc, sends, query, headers, caught>>
        /\ UNCHANGED rvars

\* What one repository yields once its last response is in: the request was
\* rejected, the payload is not a list or has no entry of the identity (null),
\* or the identity's entry.
RepoResult(resp, u) ==
    IF resp.kind = "reject" THEN [kind |-> "rejected"]
    ELSE IF ~resp.body.isArray THEN [kind |-> "null"]
    ELSE FindContributor(resp.body.entries, u)

\* The sequential fetchLoc's try block for one repository: a rejected request,
\* a payload that is no list and a missing entry are skipped, the weeks of the
\* identity's entry are merged, and an error is caught: what was merged stays.
MergeCaught(map, result) ==
    IF result.kind = "contributor" THEN MergeContributor(map, result.c).map ELSE map

\* The sequential fetchLoc, from a repository's result to the next await: the
\* identity's weeks are merged inside the try block (an error is caught and
\* what was merged stays), then the next repository's request is issued, or
\* the series is built and returned.
LocProcess(i, result, isArr, es) ==
    LET merged == MergeCaught(weeklyMap, result)
        done == [fetch EXCEPT ![i].st = "settled", ![i].result = result,
                              ![i].lastArr = isArr, ![i].entries = es]
        out == BuildSeries(merged)
    IN  /\ weeklyMap' = merged
        /\ completed' = Append(completed, i)
        /\ IF i < Len(repos)
           THEN /\ fetch' = [done EXCEPT ![i + 1] = Issued]
                /\ cur' = i + 1
                /\ UNCHANGED <<pc, ret>>
           ELSE /\ fetch' = done
                /\ cur' = cur
                /\ ret' = out
                /\ pc' = IF out.kind = "series" THEN "returned" ELSE "rejected"

\* A repository's result in the parallel fetchLoc: fetchOneRepo settles.
ParSettle(i, result, isArr, es) ==
    /\ fetch' = [fetch EXCEPT ![i].st = "settled", ![i].result = result,
                              ![i].lastArr = isArr, ![i].entries = es]
    /\ completed' = Append(completed, i)
    /\ UNCHANGED <<pc, ret, cur, weeklyMap>>

\* The first statistics response of repository i: on 202 the delay starts,
\* otherwise the repository's result is in.
StatsResponse(i, resp) ==
    /\ pc = "stats"
    /\ i \in 1..Len(repos)
    /\ fetch[i].st = "req1"
    /\ IF resp.kind = "http" /\ resp.status = 202
       THEN /\ fetch' = [fetch EXCEPT ![i].st = "delay", ![i].first202 = TRUE]
            /\ UNCHANGED <<pc, ret, cur, completed, weeklyMap>>
       ELSE IF variant = "par"
       THEN ParSettle(i, RepoResult(resp, username), IsArrayResp(resp), EntriesOf(resp))
       ELSE LocProcess(i, RepoResult(resp, username), IsArrayResp(resp), EntriesOf(resp))
    /\ UNCHANGED <<variant, caller, username, include_orgs, orgs, orgIdx, srcLog,
                   rawRepos, repos, listReqs, hpc, sends, query, headers, caught>>
    /\ UNCHANGED rvars

\* Time passes: every running retry timer has waited dt more (what it has
\* waited is counted up to the delay only).
AdvanceTime(dt) ==
    /\ pc = "stats"
    /\ \E i \in 1..Len(repos) : fetch[i].st = "delay" /\ fetch[i].waited < RetryDelay
    /\ fetch' = [i \in 1..Len(repos) |->
                    IF fetch[i].st = "delay"
                    THEN [fetch[i] EXCEPT !.waited = Min(@ + dt, RetryDelay)]
                    ELSE fetch[i]]
    /\ UNCHANGED <<variant, caller, username, include_orgs, pc, orgs, orgIdx, srcLog,
                   rawRepos, repos, cur, completed, weeklyMap, ret, listReqs, hpc,
                   sends, query, headers, caught>>
    /\ UNCHANGED rvars

\* A retry without the delay.
TimerDueAtOnce(i) == TRUE

\* The retry timer's guard: setTimeout calls back once the delay has passed.
TimerDue(i) == fetch[i].waited >= RetryDelay

\* The retry timer of repository i fires: the second request is issued.
TimerFire(i) ==
    /\ pc = "stats"
    /\ i \in 1..Len(repos)
    /\ fetch[i].st = "delay"
    /\ TimerDue(i)
    /\ fetch' = [fetch EXCEPT ![i].st = "req2", ![i].reqs = @ + 1]
    /\ UNCHANGED <<variant, caller, username, include_orgs, pc, orgs, orgIdx, srcLog,
                   rawRepos, repos, cur, completed, weeklyMap, ret, listReqs, hpc,
                   sends, query, headers, caught>>
    /\ UNCHANGED rvars

\* The second statistics response of repository i: whatever its status, the
\* repository's result is in.
RetryResponse(i, resp) ==
    /\ pc = "stats"
    /\ i \in 1..Len(repos)
    /\ fetch[i].st = "req2"
    /\ IF variant = "par"
       THEN ParSettle(i, RepoResult(resp, username), IsArrayResp(resp), EntriesOf(resp))
       ELSE LocProcess(i, RepoResult(resp, username), IsArrayResp(resp), EntriesOf(resp))
    /\ UNCHANGED <<variant, caller, username, include_orgs, orgs, orgIdx, srcLog,
                   rawRepos, repos, listReqs, hpc, sends, query, headers, caught>>
    /\ UNCHANGED rvars

\* The loop over the settled results of the parallel fetchLoc: rejected and
\* null results are skipped, the weeks of the others are merged, and an error
\* leaves the loop (nothing catches it).
RECURSIVE MergeResults(_, _)
MergeResults(map, results) ==
    IF results = <<>> THEN [map |-> map, threw |-> FALSE]
    ELSE IF Head(results).kind # "contributor" THEN MergeResults(map, Tail(results))
    ELSE LET m == MergeContributor(map, Head(results).c)
         IN  IF m.threw THEN m ELSE MergeResults(m.map, Tail(results))

\* A join that hands over the first repository's result only.
ResultsOfFirst(f) == [i \in 1..Min(1, Len(f)) |-> f[i].result]

\* results: what Promise.allSettled resolves to, one slot per repository, in
\* the order of repos (not of completion).
ResultsOf(f) == [i \in 1..Len(f) |-> f[i].result]

\* Promise.allSettled resolves in the parallel fetchLoc: the results are
\* merged, the series is built and returned.
AllSettled ==
    /\ variant = "par"
    /\ pc = "stats"
    /\ \A i \in 1..Len(repos) : fetch[i].st = "settled"
    /\ LET m == MergeResults(weeklyMap, ResultsOf(fetch))
           out == IF m.threw THEN [kind |-> "error", name |-> "TypeError"]
                  ELSE BuildSeries(m.map)
       IN  /\ weeklyMap' = m.map
           /\ ret' = out
           /\ pc' = IF out.kind = "series" THEN "returned" ELSE "rejected"
    /\ UNCHANGED <<variant, caller, username, include_orgs, orgs, orgIdx, srcLog,
                   rawRepos, repos, fetch, cur, completed, listReqs, hpc, sends,
                   query, headers, caught>>
    /\ UNCHANGED rvars

----------------------------------------------------------------------------
(* The chart renderers: time and the calendar. *)

\* Times are in days (86400 seconds) and every time of the model is a
\* midnight, UTC: new Date(t * 1000) is the day t, and day 0 is the first of
\* January of the year Year0.
Year0 == 2023

\* The years the calendar of the model spans.
MaxYears == 4

IsLeapYear(y) == (y % 4 = 0 /\ y % 100 # 0) \/ y % 400 = 0

\* The days of month m (0 is January) of year y.
DaysInMonth(y, m) ==
    IF m \in {0, 2, 4, 6, 7, 9, 11} THEN 31
    ELSE IF m \in {3, 5, 8, 10} THEN 30
    ELSE IF IsLeapYear(y) THEN 29 ELSE 28

\* The first day of the k-th month after January of Year0.
RECURSIVE MonthStart(_)
MonthStart(k) ==
    IF k = 0 THEN 0
    ELSE MonthStart(k - 1) + DaysInMonth(Year0 + (k - 1) \div 12, (k - 1) % 12)

MaxMonthIndex == 12 * MaxYears
MonthStarts == [k \in 0..MaxMonthIndex |-> MonthStart(k)]

\* The month a day lies in, counted from January of Year0: d.getFullYear() is
\* Year0 + k \div 12 and d.getMonth() is k % 12.
MonthIndexOf(t) ==
    CHOOSE k \in 0..(MaxMonthIndex - 1) : MonthStarts[k] <= t /\ t < MonthStarts[k + 1]

GetFullYear(t) == Year0 + MonthIndexOf(t) \div 12
GetMonth(t) == MonthIndexOf(t) % 12

----------------------------------------------------------------------------
(* The chart renderers.  There are four renderLocChart in the repository:  *)
(* "spline", the smoothed area chart on a linear time scale, with a months *)
(* window; "basic", the area chart on a square-root time scale, without    *)
(* theme and months window; "bar", the monthly bar chart; "sqrt", the area *)
(* chart on a square-root time scale, with a months window.                *)

Renderers == {"spline", "basic", "bar", "sqrt"}

\* const width = 850; const height = 300;
\* const padding = { top: 50, right: 30, bottom: 50, left: 70 };
Width == 850
Height == 300
PaddingTop == 50
PaddingRight == 30
PaddingBottom == 50
PaddingLeft == 70
ChartW == Width - PaddingLeft - PaddingRight
ChartH == Height - PaddingTop - PaddingBottom

\* options.<name>: undefined when the options object has no such property.
Opt(opts, name) == IF name \in DOMAIN opts THEN opts[name] ELSE Undefined

\* The greatest months option of the model.
MaxMonths == 24

\* An option's value as a number: the model writes a number as its decimal
\* string, and a value that is none (undefined, a word) is no number.
IsNumber(v) == \E n \in (-1)..MaxMonths : ToString(n) = v
ToNumber(v) == CHOOSE n \in (-1)..MaxMonths : ToString(n) = v

\* months && months > 0
HasWindow(opts) ==
    LET months == Opt(opts, "months")
    IN  IsNumber(months) /\ ToNumber(months) # 0 /\ ToNumber(months) > 0

\* months && months <= 12 (the "spline" renderer only)
MonthsMode(rv, opts) ==
    LET months == Opt(opts, "months")
    IN  rv = "spline" /\ IsNumber(months) /\ ToNumber(months) # 0
        /\ ToNumber(months) <= 12

\* getCardColors of ../common/color.js, for one color: the option when it is
\* given, else the color of the theme.  The "basic" renderer has no theme: its
\* parameter defaults apply.
CardColor(rv, opts, name, dflt) ==
    IF Opt(opts, name) # Undefined
    THEN [from |-> "option", value |-> Opt(opts, name)]
    ELSE IF rv = "basic" THEN [from |-> "default", value |-> dflt]
    ELSE [from |-> "theme", theme |-> Opt(opts, "theme"), name |-> name]

BgColor(rv, opts) == CardColor(rv, opts, "bg_color", "0D1117")
TextColor(rv, opts) == CardColor(rv, opts, "text_color", "E6EDF3")

\* The image returned for weeklyData.length === 0: the svg element of the
\* canvas' size with a rect of the background color and the text.
NoDataImage(bg, text) ==
    [kind |-> "nodata", width |-> Width, height |-> Height,
     elements |-> <<[tag |-> "rect", fill |-> bg],
                    [tag |-> "text", fill |-> text, text |-> "No data available"]>>]

\* A test for the empty series that never finds it.
IsEmptySeriesNever(d) == FALSE

\* weeklyData.length === 0
IsEmptySeries(d) == Len(d.weeklyData) = 0

\* The two halves of a list.  The loops over the weekly records are written
\* half by half, each half handing its result to the next, so that a long
\* series is gone through from its first record to its last.
FirstHalf(xs) == SubSeq(xs, 1, Len(xs) \div 2)
SecondHalf(xs) == SubSeq(xs, Len(xs) \div 2 + 1, Len(xs))

\* The sum of a field over a list of records.
RECURSIVE TotalOf(_, _)
TotalOf(ws, f) ==
    IF Len(ws) = 0 THEN 0
    ELSE IF Len(ws) = 1 THEN ws[1][f]
    ELSE TotalOf(FirstHalf(ws), f) + TotalOf(SecondHalf(ws), f)

\* A running total that starts again at every record.
CumulativePointsPerWeek(ws, cumulative) ==
    [i \in 1..Len(ws) |->
        [week |-> ws[i].week, value |-> ws[i].additions - ws[i].deletions,
         additions |-> ws[i].additions, deletions |-> ws[i].deletions]]

\* let cumulative = 0; weeklyData.map((w) => { cumulative += w.additions -
\* w.deletions; return { week, value: cumulative, additions, deletions }; })
RECURSIVE CumulativePoints(_, _)
CumulativePoints(ws, cumulative) ==
    IF Len(ws) = 0 THEN <<>>
    ELSE IF Len(ws) = 1
    THEN LET w == ws[1]
         IN  <<[week |-> w.week, value |-> cumulative + w.additions - w.deletions,
                additions |-> w.additions, deletions |-> w.deletions]>>
    ELSE LET first == CumulativePoints(FirstHalf(ws), cumulative)
         IN  first \o CumulativePoints(SecondHalf(ws), first[Len(first)].value)

\* months * 30 * 86400 seconds, in days.
WindowDaysPerMonth == 30

\* A window without the fallback to the full series.
VisiblePointsNoFallback(rv, allPoints, opts, t) ==
    IF rv = "basic" \/ ~HasWindow(opts) THEN allPoints
    ELSE LET cutoff == t - ToNumber(Opt(opts, "months")) * WindowDaysPerMonth
             InWindow(p) == p.week >= cutoff
         IN  SelectSeq(allPoints, InWindow)

\* let points = allPoints; if (months && months > 0) { cutoff = now - months *
\* 30 days; points = allPoints.filter((p) => p.week >= cutoff); if
\* (points.length === 0) points = allPoints; }  The "basic" renderer has no
\* window.
VisiblePoints(rv, allPoints, opts, t) ==
    IF rv = "basic" \/ ~HasWindow(opts) THEN allPoints
    ELSE LET cutoff == t - ToNumber(Opt(opts, "months")) * WindowDaysPerMonth
             InWindow(p) == p.week >= cutoff
             points == SelectSeq(allPoints, InWindow)
         IN  IF Len(points) = 0 THEN allPoints ELSE points

\* Math.sqrt, to the whole number below.
RECURSIVE ISqrtBetween(_, _, _)
ISqrtBetween(n, lo, hi) ==
    IF lo = hi THEN lo
    ELSE LET mid == (lo + hi + 1) \div 2
         IN  IF mid * mid <= n THEN ISqrtBetween(n, mid, hi)
             ELSE ISqrtBetween(n, lo, mid - 1)

ISqrt(n) == ISqrtBetween(n, 0, ChartW)

\* const timeRange = maxTime - minTime || 1;
TimeRange(minTime, maxTime) ==
    IF maxTime - minTime = 0 THEN 1 ELSE maxTime - minTime

\* toX, in pixels, to the whole pixel below: padding.left + ((t - minTime) /
\* timeRange) * chartW on the linear scale, padding.left + Math.sqrt((t -
\* minTime) / timeRange) * chartW on the square-root scale.
ToX(rv, t, minTime, timeRange) ==
    IF rv = "spline"
    THEN PaddingLeft + ((t - minTime) * ChartW) \div timeRange
    ELSE PaddingLeft + ISqrt(((t - minTime) * ChartW * ChartW) \div timeRange)

\* 365 * 86400 seconds, in days.
YearDays == 365

\* A while loop that takes every month start not before minTime.
RECURSIVE MonthCandidatesEveryMonth(_, _, _, _, _, _)
MonthCandidatesEveryMonth(rv, opts, k, minTime, maxTime, oneYearAgo) ==
    LET first == MonthStarts[k]
    IN  IF first > maxTime THEN <<>>
        ELSE (IF first >= minTime THEN <<first>> ELSE <<>>)
             \o MonthCandidatesEveryMonth(rv, opts, k + 1, minTime, maxTime, oneYearAgo)

\* The while loop of buildXLabels: from the first of minTime's month, month by
\* month up to maxTime; a month start not before minTime is a candidate in
\* months mode, when it is not older than one year, or when it is a January.
RECURSIVE MonthCandidates(_, _, _, _, _, _)
MonthCandidates(rv, opts, k, minTime, maxTime, oneYearAgo) ==
    LET first == MonthStarts[k]
    IN  IF first > maxTime THEN <<>>
        ELSE (IF /\ first >= minTime
                 /\ \/ MonthsMode(rv, opts)
                    \/ first >= oneYearAgo
                    \/ k % 12 = 0
              THEN <<first>> ELSE <<>>)
             \o MonthCandidates(rv, opts, k + 1, minTime, maxTime, oneYearAgo)

\* The candidates of buildXLabels: the month starts, then maxTime unless the
\* last candidate is maxTime already.
Candidates(rv, opts, minTime, maxTime, t) ==
    LET cs == MonthCandidates(rv, opts, MonthIndexOf(minTime), minTime, maxTime,
                              t - YearDays)
    IN  IF Len(cs) = 0 \/ cs[Len(cs)] < maxTime THEN Append(cs, maxTime) ELSE cs

\* const MIN_LABEL_PX = 85;
MIN_LABEL_PX == 85

\* A selection that keeps every candidate right of the left edge.
RECURSIVE PickLabelsAll(_, _, _, _, _)
PickLabelsAll(cands, xs, i, hasLast, lastX) ==
    IF i = 0 THEN <<>>
    ELSE IF xs[i] >= PaddingLeft
         THEN Append(PickLabelsAll(cands, xs, i - 1, TRUE, xs[i]),
                     [week |-> cands[i], x |-> xs[i]])
         ELSE PickLabelsAll(cands, xs, i - 1, hasLast, lastX)

\* The greedy selection of buildXLabels, from the last candidate to the first
\* (lastX is Infinity until a label is picked): a candidate is picked when it
\* is MIN_LABEL_PX or more left of the label picked last and not left of the
\* plot's left edge; picked.unshift keeps the labels in ascending order.
RECURSIVE PickLabels(_, _, _, _, _)
PickLabels(cands, xs, i, hasLast, lastX) ==
    IF i = 0 THEN <<>>
    ELSE IF (~hasLast \/ lastX - xs[i] >= MIN_LABEL_PX) /\ xs[i] >= PaddingLeft
         THEN Append(PickLabels(cands, xs, i - 1, TRUE, xs[i]),
                     [week |-> cands[i], x |-> xs[i]])
         ELSE PickLabels(cands, xs, i - 1, hasLast, lastX)

\* buildXLabels()
BuildXLabels(rv, opts, minTime, maxTime, t) ==
    LET cands == Candidates(rv, opts, minTime, maxTime, t)
        timeRange == TimeRange(minTime, maxTime)
        xs == [i \in 1..Len(cands) |-> ToX(rv, cands[i], minTime, timeRange)]
    IN  PickLabels(cands, xs, Len(cands), FALSE, 0)

\* const title = custom_title || <the renderer's title>
Title(rv, opts) ==
    IF Opt(opts, "custom_title") \notin {Undefined, ""} THEN Opt(opts, "custom_title")
    ELSE IF rv = "bar" THEN "Monthly Code Contributions"
    ELSE "Lines of Code Contributed"

\* The stats summary of the image: +totalAdditions, -totalDeletions, netLines.
Stats(d) ==
    [additions |-> d.totalAdditions, deletions |-> d.totalDeletions,
     net |-> d.netLines]

\* const dotCount = 8 (the "spline" renderer); points.length / 12 (the others).
DotCountSpline == 8
DotCountSqrt == 12
DotCount(rv) == IF rv = "spline" THEN DotCountSpline ELSE DotCountSqrt

\* const dotStep = Math.max(1, Math.floor(points.length / dotCount));
DotStep(rv, n) == IF n \div DotCount(rv) >= 1 THEN n \div DotCount(rv) ELSE 1

\* points.filter((_, i) => i % dotStep === 0 || i === points.length - 1), the
\* index i counted from 0.
DotPoints(rv, points) ==
    LET n == Len(points)
        kept == {i \in 1..n : (i - 1) % DotStep(rv, n) = 0 \/ i = n}
        IsDot(p) == \E i \in kept : points[i] = p
    IN  SelectSeq(points, IsDot)

\* Math.max(...) and Math.min(...) of a non-empty set of numbers.
MaxOf(ns) == CHOOSE m \in ns : \A x \in ns : x <= m
MinOf(ns) == CHOOSE m \in ns : \A x \in ns : m <= x

\* The values of a list of points.
ValuesOf(points) == {points[i].value : i \in 1..Len(points)}

\* const maxVal = Math.max(...points.map((p) => p.value), 0);
MaxVal(points) == MaxOf(ValuesOf(points) \cup {0})

\* A minimum over the points' values alone.
MinValOfPoints(points) == MinOf(ValuesOf(points))

\* const minVal = Math.min(...points.map((p) => p.value), 0);
MinVal(points) == MinOf(ValuesOf(points) \cup {0})

\* A value range that is not normalised.
ValRangeAsIs(points) == MaxVal(points) - MinVal(points)

\* const valRange = maxVal - minVal || 1;
ValRange(points) ==
    IF MaxVal(points) - MinVal(points) = 0 THEN 1 ELSE MaxVal(points) - MinVal(points)

\* const yTicks = 4 (the "spline" renderer), 5 (the others).
YTicksSpline == 4
YTicksSqrt == 5
YTicks(rv) == IF rv = "spline" THEN YTicksSpline ELSE YTicksSqrt

\* A number that need not be whole: num / den.
Frac(num, den) == [num |-> num, den |-> den]

\* yLabels: val = minVal + (valRange / yTicks) * i for i = 0..yTicks.
YLabels(rv, points) ==
    [k \in 1..(YTicks(rv) + 1) |->
        Frac(MinVal(points) * YTicks(rv) + ValRange(points) * (k - 1), YTicks(rv))]

\* The divisors of the area charts' scales, and the bounds of the value scale.
CumulativeScale(rv, points) ==
    [timeRange |-> TimeRange(points[1].week, points[Len(points)].week),
     valRange |-> ValRange(points),
     minVal |-> MinVal(points),
     maxVal |-> MaxVal(points),
     yTicks |-> YTicks(rv),
     dotCount |-> DotCount(rv)]

\* An area chart that cuts the window out of the weekly records first and
\* starts the running total at the window's first record.
RenderCumulativeWindowFirst(rv, d, opts, t) ==
    IF IsEmptySeries(d)
    THEN NoDataImage(BgColor(rv, opts), TextColor(rv, opts))
    ELSE LET points == CumulativePoints(VisiblePoints(rv, d.weeklyData, opts, t), 0)
             minTime == points[1].week
             maxTime == points[Len(points)].week
         IN  [kind |-> "chart", width |-> Width, height |-> Height,
              bg |-> BgColor(rv, opts), title |-> Title(rv, opts),
              stats |-> Stats(d),
              points |-> points,
              xLabels |-> BuildXLabels(rv, opts, minTime, maxTime, t),
              dots |-> DotPoints(rv, points),
              scale |-> CumulativeScale(rv, points),
              yLabels |-> YLabels(rv, points),
              bars |-> <<>>, rects |-> <<>>]

\* The three area charts.  Reading points[0].week of an empty list throws.
RenderCumulative(rv, d, opts, t) ==
    IF IsEmptySeries(d)
    THEN NoDataImage(BgColor(rv, opts), TextColor(rv, opts))
    ELSE LET allPoints == CumulativePoints(d.weeklyData, 0)
             points == VisiblePoints(rv, allPoints, opts, t)
         IN  IF Len(points) = 0 THEN [kind |-> "error", name |-> "TypeError"]
             ELSE LET minTime == points[1].week
                      maxTime == points[Len(points)].week
                  IN  [kind |-> "chart", width |-> Width, height |-> Height,
                       bg |-> BgColor(rv, opts), title |-> Title(rv, opts),
                       stats |-> Stats(d),
                       points |-> points,
                       xLabels |-> BuildXLabels(rv, opts, minTime, maxTime, t),
                       dots |-> DotPoints(rv, points),
                       scale |-> CumulativeScale(rv, points),
                       yLabels |-> YLabels(rv, points),
                       bars |-> <<>>, rects |-> <<>>]

\* The last n entries of a list: Array.prototype.slice(-n) for n > 0.
LastN(xs, n) == IF n >= Len(xs) THEN xs ELSE SubSeq(xs, Len(xs) - n + 1, Len(xs))

\* The loop that fills monthlyMap: every weekly record is added to the entry
\* of its calendar month (the key `${year}-${month}` is the month's index), so
\* a month's entry holds the sums over the records of that month.
MonthlyMap(ws) ==
    LET keys == {MonthIndexOf(ws[i].week) : i \in 1..Len(ws)}
    IN  [key \in keys |->
            LET InMonth(w) == MonthIndexOf(w.week) = key
                rows == SelectSeq(ws, InMonth)
            IN  [year |-> GetFullYear(rows[1].week), month |-> GetMonth(rows[1].week),
                 additions |-> TotalOf(rows, "additions"),
                 deletions |-> TotalOf(rows, "deletions")]]

\* [...monthlyMap.values()].sort((a, b) => a.year - b.year || a.month - b.month)
\* The i-th month is the one with i - 1 months before it.
MonthlyData(ws) ==
    LET map == MonthlyMap(ws)
        keys == [i \in 1..Cardinality(DOMAIN map) |->
                    CHOOSE k \in DOMAIN map :
                        Cardinality({j \in DOMAIN map : j < k}) = i - 1]
    IN  [i \in 1..Len(keys) |-> map[keys[i]]]

\* const maxAdd = Math.max(...monthlyData.map((m) => m.additions), 1);
MaxAdd(md) == MaxOf({md[i].additions : i \in 1..Len(md)} \cup {1})

\* const maxDel = Math.max(...monthlyData.map((m) => m.deletions), 1);
MaxDel(md) == MaxOf({md[i].deletions : i \in 1..Len(md)} \cup {1})

\* const maxVal = Math.max(maxAdd, maxDel);
BarMaxVal(md) == MaxOf({MaxAdd(md), MaxDel(md)})

\* A baseline half-way down the plot.
BaselineHalfWay(md) == Frac(ChartH, 2)

\* baselineY - padding.top = chartH * addRatio, with addRatio = maxAdd /
\* (maxAdd + maxDel).
BaselineOffset(md) == Frac(ChartH * MaxAdd(md), MaxAdd(md) + MaxDel(md))

\* The bars' heights and positions are whole multiples of 1 / BarUnit(md) of
\* a pixel: maxVal * (maxAdd + maxDel) is the product of the divisors of addH
\* and delH.
BarUnit(md) == BarMaxVal(md) * (MaxAdd(md) + MaxDel(md))

\* const addH = (m.additions / maxVal) * chartH * addRatio; in units of
\* 1 / BarUnit(md) of a pixel.
AddHeight(md, m) == m.additions * ChartH * MaxAdd(md)

\* const delH = (m.deletions / maxVal) * chartH * (1 - addRatio); in the same
\* units.
DelHeight(md, m) == m.deletions * ChartH * MaxDel(md)

\* The y of a rect below the plot top, in the same units: baselineY - addH -
\* padding.top for an addition bar (h > 0), baselineY - padding.top for a
\* deletion bar (h = 0).
RectY(md, h) == BaselineOffset(md).num * BarMaxVal(md) - h

\* The rects of a month: the addition bar starts addH above the baseline and is
\* drawn when m.additions > 0, the deletion bar starts at the baseline and is
\* drawn when m.deletions > 0.
BarRects(md) ==
    [i \in 1..Len(md) |->
        [hasAdd |-> md[i].additions > 0,
         addY |-> RectY(md, AddHeight(md, md[i])),
         addH |-> AddHeight(md, md[i]),
         hasDel |-> md[i].deletions > 0,
         delY |-> RectY(md, 0),
         delH |-> DelHeight(md, md[i])]]

\* The divisors of the bar chart's scales, and its baseline.
BarScale(md) ==
    [maxAdd |-> MaxAdd(md), maxDel |-> MaxDel(md), maxVal |-> BarMaxVal(md),
     ratioSum |-> MaxAdd(md) + MaxDel(md), n |-> Len(md),
     unit |-> BarUnit(md),
     baseline |-> BaselineOffset(md)]

\* The monthly bar chart: the months of the series, the last `months` of them
\* when a window is given.
RenderBar(rv, d, opts, t) ==
    IF IsEmptySeries(d)
    THEN NoDataImage(BgColor(rv, opts), TextColor(rv, opts))
    ELSE LET all == MonthlyData(d.weeklyData)
             monthlyData == IF HasWindow(opts)
                            THEN LastN(all, ToNumber(Opt(opts, "months")))
                            ELSE all
         IN  IF Len(monthlyData) = 0
             THEN NoDataImage(BgColor(rv, opts), TextColor(rv, opts))
             ELSE [kind |-> "chart", width |-> Width, height |-> Height,
                   bg |-> BgColor(rv, opts), title |-> Title(rv, opts),
                   stats |-> Stats(d),
                   points |-> <<>>,
                   xLabels |-> <<>>,
                   dots |-> <<>>,
                   scale |-> BarScale(monthlyData),
                   yLabels |-> <<>>,
                   bars |-> monthlyData, rects |-> BarRects(monthlyData)]

\* renderLocChart(data, options), called at the time t.
RenderLocChart(rv, d, opts, t) ==
    IF rv = "bar" THEN RenderBar(rv, d, opts, t) ELSE RenderCumulative(rv, d, opts, t)

----------------------------------------------------------------------------
(* The HTTP handler. *)

\* The requests' options: none; a background color and a title; a shown
\* border; a months window; a theme and a border color.
Queries ==
    {NoQuery,
     [NoQuery EXCEPT !.bg_color = "000000", !.custom_title = "T"],
     [NoQuery EXCEPT !.hide_border = "false"],
     [NoQuery EXCEPT !.months = "1"],
     [NoQuery EXCEPT !.theme = "dark", !.border_color = "ff0000"]}

\* include_orgs of the requests to the handler.
HandlerIncludeOrgs == {<<>>}

\* parseBoolean of ../src/common/ops.js.
ParseBoolean(v) ==
    IF v = "true" THEN "true" ELSE IF v = "false" THEN "false" ELSE Undefined

\* retrieveSecondaryMessage of ../src/common/error.js: the error's secondary
\* message when it has one.
RetrieveSecondaryMessage(err) ==
    IF "secondaryMessage" \in DOMAIN err THEN err.secondaryMessage ELSE Undefined

\* err.message (an error of the model is known by its name).
MessageOf(err) == err.name

\* What the calls of the try block after fetchLoc (resolveCacheSeconds,
\* setCacheHeaders, parseBoolean, renderLocChart) do: all return, or one
\* throws an Error (with or without a secondary message) or another value,
\* before or after the cache headers are set.
NoThrow == [kind |-> "none"]
TryOutcomes ==
    {[at |-> "render", err |-> NoThrow]}
    \cup {[at |-> a, err |-> e] :
            a \in {"cache", "render"},
            e \in {[kind |-> "error", name |-> "Error"],
                   [kind |-> "error", name |-> "CustomError",
                    secondaryMessage |-> "secondary"],
                   [kind |-> "value"]}}

\* res.setHeader(name, value), with the number of res.send calls before it.
Header(name, value) == [name |-> name, value |-> value, sent |-> Len(sends)]
ContentTypeHeader == Header("Content-Type", "image/svg+xml")

\* renderOptions of the handler's three renderError calls.
ErrorRenderOptions(q) ==
    [title_color |-> q.title_color, text_color |-> q.text_color,
     bg_color |-> q.bg_color, border_color |-> Undefined, theme |-> Undefined]

\* renderError({ message, secondaryMessage, renderOptions })
ErrorImage(message, secondaryMessage, renderOptions) ==
    [kind |-> "error", message |-> message, secondaryMessage |-> secondaryMessage,
     renderOptions |-> renderOptions]

\* The options object of the handler's renderLocChart call.
ChartOptions(q) ==
    [bg_color |-> q.bg_color, line_color |-> q.line_color,
     area_color |-> q.area_color, point_color |-> q.point_color,
     title_color |-> q.title_color, text_color |-> q.text_color,
     hide_border |-> IF q.hide_border = Undefined THEN "true"
                     ELSE ParseBoolean(q.hide_border),
     custom_title |-> q.custom_title]

\* renderLocChart(locData, options)
ChartImage(locData, opts) ==
    [kind |-> "chart", message |-> "", data |-> locData, options |-> opts]

\* A request arrives: the content type is set; without a username the error
\* image is sent at once, otherwise fetchLoc is called and awaited.
HandlerRequest(u, io, q) ==
    /\ caller = "none"
    /\ hpc = "idle"
    /\ caller' = "handler"
    /\ query' = q
    /\ headers' = Append(headers, ContentTypeHeader)
    /\ caught' = caught
    /\ UNCHANGED rvars
    /\ IF u = <<>>
       THEN /\ sends' = Append(sends,
                ErrorImage("Missing required parameter: username", Undefined,
                           ErrorRenderOptions(q)))
            /\ hpc' = "sent"
            /\ username' = u
            /\ include_orgs' = io
            /\ UNCHANGED <<variant, pc, orgs, orgIdx, srcLog, rawRepos, repos,
                           fetch, cur, completed, weeklyMap, ret, listReqs>>
       ELSE /\ hpc' = "awaitFetch"
            /\ sends' = sends
            /\ FetchLocEnter(u, io)

\* A catch block that sends nothing for a value that is no Error.
HandlerCatchErrorsOnly(err) ==
    IF err.kind = "error"
    THEN /\ sends' = Append(sends,
             ErrorImage(MessageOf(err), RetrieveSecondaryMessage(err),
                        ErrorRenderOptions(query)))
         /\ hpc' = "sent"
    ELSE /\ sends' = sends
         /\ hpc' = "threw"

\* catch (err): after setErrorCacheHeaders, an Error is sent as the error image
\* of its message and secondary message, another value as "An unknown error
\* occurred".
HandlerCatch(err) ==
    /\ sends' = Append(sends,
          IF err.kind = "error"
          THEN ErrorImage(MessageOf(err), RetrieveSecondaryMessage(err),
                          ErrorRenderOptions(query))
          ELSE ErrorImage("An unknown error occurred", Undefined,
                          ErrorRenderOptions(query)))
    /\ hpc' = "sent"

\* fetchLoc has settled.  When it returned, the cache headers are set and the
\* chart is rendered and sent, unless one of these calls throws; what fetchLoc
\* or these calls threw goes to the catch block.
HandlerResume(o) ==
    /\ hpc = "awaitFetch"
    /\ pc \in {"returned", "rejected"}
    /\ pc = "rejected" => o.err = NoThrow
    /\ IF pc = "returned" /\ o.err = NoThrow
       THEN /\ headers' = Append(headers, Header("Cache-Control", "cache"))
            /\ sends' = Append(sends, ChartImage(ret, ChartOptions(query)))
            /\ hpc' = "sent"
            /\ caught' = caught
       ELSE LET err == IF pc = "rejected" THEN ret ELSE o.err
                hs == IF pc = "returned" /\ o.at = "render"
                      THEN Append(headers, Header("Cache-Control", "cache"))
                      ELSE headers
            IN  /\ caught' = err
                /\ headers' = Append(hs, Header("Cache-Control", "errorCache"))
                /\ HandlerCatch(err)
    /\ UNCHANGED <<variant, caller, username, include_orgs, pc, orgs, orgIdx, srcLog,
                   rawRepos, repos, fetch, cur, completed, weeklyMap, ret, listReqs,
                   query>>
    /\ UNCHANGED rvars

----------------------------------------------------------------------------

Next ==
    \/ \E u \in Usernames, io \in IncludeOrgsInputs : CallFetchLoc(u, io)
    \/ \E u \in Usernames, io \in HandlerIncludeOrgs, q \in Queries :
          HandlerRequest(u, io, q)
    \/ \E resp \in ListResponses(UserNodeLists) : UserListResponse(resp)
    \/ \E resp \in ListResponses(OrgNodeLists) : OrgListResponse(resp)
    \/ \E i \in 1..MaxRaw, resp \in StatsResponses : StatsResponse(i, resp)
    \/ \E dt \in TimeSteps : AdvanceTime(dt)
    \/ \E i \in 1..MaxRaw : TimerFire(i)
    \/ \E i \in 1..MaxRaw, resp \in StatsResponses : RetryResponse(i, resp)
    \/ AllSettled
    \/ \E o \in TryOutcomes : HandlerResume(o)

Spec == Init /\ [][Next]_vars

\* The steps by which a call of fetchLoc goes on: a request settles, time
\* passes, a timer fires, the join of the fetches resolves.
FetchProgress ==
    \/ \E resp \in ListResponses(UserNodeLists) : UserListResponse(resp)
    \/ \E resp \in ListResponses(OrgNodeLists) : OrgListResponse(resp)
    \/ \E i \in 1..MaxRaw, resp \in StatsResponses : StatsResponse(i, resp)
    \/ \E dt \in TimeSteps : AdvanceTime(dt)
    \/ \E i \in 1..MaxRaw : TimerFire(i)
    \/ \E i \in 1..MaxRaw, resp \in StatsResponses : RetryResponse(i, resp)
    \/ AllSettled

----------------------------------------------------------------------------
(* The claims. *)

\* fetchLoc was called with an identity.
Called == caller # "none" /\ username # <<>>

\* Discovery is over: the repositories are deduplicated.
DiscoveryDone == Called /\ pc \in {"stats", "returned", "rejected"}

\* fetchLoc, called with an identity, has returned or thrown.
Finished == Called /\ pc \in {"returned", "rejected"}

RECURSIVE SumField(_, _)
SumField(ws, f) == IF ws = <<>> THEN 0 ELSE Head(ws)[f] + SumField(Tail(ws), f)

\* C1: in the series fetchLoc returns, totalAdditions, totalDeletions and
\* totalCommits are the sums of additions, deletions and commits over
\* weeklyData, and netLines is totalAdditions - totalDeletions.
C1_TotalsAreSums ==
    ret.kind = "series" =>
        /\ ret.totalAdditions = SumField(ret.weeklyData, "additions")
        /\ ret.totalDeletions = SumField(ret.weeklyData, "deletions")
        /\ ret.totalCommits = SumField(ret.weeklyData, "commits")
        /\ ret.netLines = ret.totalAdditions - ret.totalDeletions

C1_Witness ==
    /\ ret.kind = "series"
    /\ Len(ret.weeklyData) = 2
    /\ ret.totalDeletions > 0
    /\ ret.totalAdditions > ret.totalCommits

AllZero(x) == x.a = 0 /\ x.d = 0 /\ x.c = 0

\* C2: the weeklyData fetchLoc returns is strictly ascending by week (so no
\* week occurs twice) and has no entry whose additions, deletions and commits
\* are all zero; and the week map never holds an all-zero slot.
C2_AscendingNoZeroWeek ==
    /\ \A k \in DOMAIN weeklyMap : ~AllZero(weeklyMap[k])
    /\ ret.kind = "series" =>
        /\ \A i, j \in 1..Len(ret.weeklyData) :
              i < j => ret.weeklyData[i].week < ret.weeklyData[j].week
        /\ \A i \in 1..Len(ret.weeklyData) :
              ~(/\ ret.weeklyData[i].additions = 0
                /\ ret.weeklyData[i].deletions = 0
                /\ ret.weeklyData[i].commits = 0)

\* A returned series of two weeks, one repository having reported an all-zero
\* week and another its weeks in descending order.
C2_Witness ==
    /\ ret.kind = "series"
    /\ Len(ret.weeklyData) = 2
    /\ \E i, j \in 1..Len(fetch) :
          /\ fetch[i].result.kind = "contributor"
          /\ fetch[j].result.kind = "contributor"
          /\ \E n \in 1..Len(fetch[i].result.c.weeks) :
                /\ fetch[i].result.c.weeks[n].kind = "week"
                /\ AllZero(fetch[i].result.c.weeks[n])
          /\ Len(fetch[j].result.c.weeks) = 2
          /\ fetch[j].result.c.weeks[1].kind = "week"
          /\ fetch[j].result.c.weeks[2].kind = "week"
          /\ fetch[j].result.c.weeks[1].w > fetch[j].result.c.weeks[2].w

Perms(n) == {p \in [1..n -> 1..n] : \A i, j \in 1..n : p[i] = p[j] => i = j}

RECURSIVE MergeAllCaught(_, _)
MergeAllCaught(map, results) ==
    IF results = <<>> THEN map
    ELSE MergeAllCaught(MergeCaught(map, Head(results)), Tail(results))

\* What fetchLoc makes of a list of per-repository results, merged in the
\* list's order.
Aggregate(results) ==
    IF variant = "par"
    THEN LET m == MergeResults(EmptyMap, results)
         IN  IF m.threw THEN [kind |-> "error", name |-> "TypeError"]
             ELSE BuildSeries(m.map)
    ELSE BuildSeries(MergeAllCaught(EmptyMap, results))

\* C3: merging the per-repository results in any order gives what fetchLoc
\* gave: the same weeklyData and the same four totals (or the same failure).
C3_OrderIndependent ==
    Finished =>
        \A p \in Perms(Len(fetch)) :
            Aggregate([i \in 1..Len(fetch) |-> fetch[p[i]].result]) = ret

\* Two repositories with different figures for the same week, merged.
C3_Witness ==
    /\ Finished
    /\ ret.kind = "series"
    /\ Len(fetch) = 2
    /\ fetch[1].result.kind = "contributor"
    /\ fetch[2].result.kind = "contributor"
    /\ fetch[1].result.c.weeks # fetch[2].result.c.weeks
    /\ \E n, m \in 1..2 :
          /\ n <= Len(fetch[1].result.c.weeks)
          /\ m <= Len(fetch[2].result.c.weeks)
          /\ fetch[1].result.c.weeks[n].kind = "week"
          /\ fetch[2].result.c.weeks[m].kind = "week"
          /\ fetch[1].result.c.weeks[n].w = fetch[2].result.c.weeks[m].w
          /\ fetch[1].result.c.weeks[n] # fetch[2].result.c.weeks[m]
          /\ ~AllZero(fetch[1].result.c.weeks[n])

KeysOf(rs) == {RepoKey(rs[i]) : i \in 1..Len(rs)}

\* The place of a key's first occurrence in the discovered list.
FirstIndex(k) ==
    CHOOSE i \in 1..Len(rawRepos) :
        /\ RepoKey(rawRepos[i]) = k
        /\ \A j \in 1..(i - 1) : RepoKey(rawRepos[j]) # k

RepoAR == [owner |-> <<"a">>, name |-> <<"r">>]
RepoBR == [owner |-> <<"b">>, name |-> <<"r">>]

\* C4: the deduplicated list holds one entry per key owner/name, each the
\* first occurrence of its key in discovery order, in the order of these first
\* occurrences; [a/r, a/r, b/r] leaves two entries.
C4_DedupeFirstWins ==
    DiscoveryDone =>
        /\ \A i, j \in 1..Len(repos) : i # j => RepoKey(repos[i]) # RepoKey(repos[j])
        /\ KeysOf(repos) = KeysOf(rawRepos)
        /\ \A i \in 1..Len(repos) : repos[i] = rawRepos[FirstIndex(RepoKey(repos[i]))]
        /\ \A i, j \in 1..Len(repos) :
              i < j => FirstIndex(RepoKey(repos[i])) < FirstIndex(RepoKey(repos[j]))
        /\ rawRepos = <<RepoAR, RepoAR, RepoBR>> => repos = <<RepoAR, RepoBR>>

C4_Witness ==
    /\ DiscoveryDone
    /\ rawRepos = <<RepoAR, RepoAR, RepoBR>>
    /\ Len(repos) = 2

\* C5: a repository gets a second statistics request exactly when its first
\* response was 202, and only once the retry delay has passed; there is never
\* a third; and a last response whose payload is no list yields no data.
C5_RetryOnceAfterDelay ==
    \A i \in 1..Len(fetch) :
        /\ fetch[i].reqs <= 2
        /\ fetch[i].reqs = 2 => fetch[i].first202 /\ fetch[i].waited >= RetryDelay
        /\ ~fetch[i].first202 => fetch[i].reqs <= 1
        /\ fetch[i].st = "settled" /\ fetch[i].first202 => fetch[i].reqs = 2
        /\ fetch[i].st = "settled" /\ ~fetch[i].lastArr =>
              fetch[i].result.kind \in {"null", "rejected"}

\* A repository retried once whose second response was no list either.
C5_Witness ==
    \E i \in 1..Len(fetch) :
        /\ fetch[i].st = "settled"
        /\ fetch[i].reqs = 2
        /\ ~fetch[i].lastArr
        /\ fetch[i].result.kind = "null"

\* The repositories a discovery source's answer stands for.
ExpectedKeys(e) ==
    {RepoKey(IF e.org = <<>>
             THEN [owner |-> e.nodes[n].owner, name |-> e.nodes[n].name]
             ELSE [owner |-> e.org, name |-> e.nodes[n]]) : n \in 1..Len(e.nodes)}

EmptySeries ==
    [kind |-> "series", weeklyData |-> <<>>, totalAdditions |-> 0,
     totalDeletions |-> 0, totalCommits |-> 0, netLines |-> 0]

\* C6: every discovery source is asked whatever the others answered, every
\* repository of every source that answered is among the discovered ones, and
\* when every source fails fetchLoc does not reject: it returns the empty series.
C6_SourceFailureIsolated ==
    /\ Called /\ pc \in {"userList", "orgList"} => ret = NoRet
    /\ DiscoveryDone =>
        /\ Len(srcLog) = 1 + Len(ParseOrgs(include_orgs))
        /\ \A n \in 1..Len(srcLog) : ExpectedKeys(srcLog[n]) \subseteq KeysOf(repos)
        /\ (\A n \in 1..Len(srcLog) : ~srcLog[n].ok) =>
              /\ repos = <<>>
              /\ pc # "rejected"
              /\ pc = "returned" => ret = EmptySeries

\* The first of two organizations failed and the repository of the second is
\* discovered.
C6_Witness ==
    /\ DiscoveryDone
    /\ Len(srcLog) = 3
    /\ ~srcLog[2].ok
    /\ srcLog[3].ok
    /\ Len(srcLog[3].nodes) = 1
    /\ ExpectedKeys(srcLog[3]) \subseteq KeysOf(repos)
    /\ pc = "returned"

\* C7: whatever a repository's statistics fetch yields (a rejected request, a
\* payload that is no list, an entry of the identity without weeks or with a
\* malformed week), fetchLoc called with an identity does not reject.
C7_RepoFailureNeverAborts == Called => pc # "rejected"

\* C8: without an identity no request is issued: fetchLoc called as a function
\* throws MissingParamError at once, and the handler sends the error image
\* without calling fetchLoc.
C8_MissingIdentityBeforeNetwork ==
    /\ ret = MissingParamError => username = <<>> /\ caller = "direct"
    /\ caller # "none" /\ username = <<>> =>
        /\ listReqs = 0
        /\ fetch = <<>>
        /\ caller = "direct" => pc = "rejected" /\ ret = MissingParamError
        /\ caller = "handler" =>
              /\ pc = "idle"
              /\ ret = NoRet
              /\ hpc = "sent"
              /\ sends = <<ErrorImage("Missing required parameter: username",
                                      Undefined, ErrorRenderOptions(query))>>

C8_Witness ==
    /\ caller = "handler"
    /\ username = <<>>
    /\ hpc = "sent"
    /\ Len(sends) = 1
    /\ listReqs = 0

\* C9: no repository's first statistics request waits for another repository:
\* once one repository's request is issued, every repository's is.
C9_AllIssuedTogether ==
    \A i, j \in 1..Len(fetch) : fetch[i].reqs >= 1 => fetch[j].reqs >= 1

\* C10: once every request of a call of fetchLoc with an identity has settled
\* and nothing is left to run, fetchLoc has returned a series.
C10_SettledThenReturned ==
    Called => (ENABLED FetchProgress) \/ (pc = "returned" /\ ret.kind = "series")

\* The per-repository results in the order in which the fetches completed.
ResultsByCompletion == [k \in 1..Len(completed) |-> fetch[completed[k]].result]

\* C11: what fetchLoc returns or throws is fixed by the per-repository results
\* alone: it is what merging them in the order of repos gives, and what merging
\* them in the order of completion gives, whatever that order was; the
\* returned weeks are ascending.
C11_CompletionOrderIndependent ==
    Finished =>
        /\ Len(completed) = Len(fetch)
        /\ ret = Aggregate([i \in 1..Len(fetch) |-> fetch[i].result])
        /\ ret = Aggregate(ResultsByCompletion)
        /\ ret.kind = "series" =>
              \A i, j \in 1..Len(ret.weeklyData) :
                  i < j => ret.weeklyData[i].week < ret.weeklyData[j].week

\* The parallel fetchLoc returned a series of two weeks, the second
\* repository's fetch having completed before the first's, each with weeks.
C11_Witness ==
    /\ Finished
    /\ variant = "par"
    /\ completed = <<2, 1>>
    /\ ret.kind = "series"
    /\ Len(ret.weeklyData) = 2
    /\ fetch[1].result.kind = "contributor"
    /\ fetch[2].result.kind = "contributor"
    /\ fetch[1].result # fetch[2].result

\* The request failed: no username, fetchLoc threw, or a call after it threw.
RequestFailed == username = <<>> \/ pc = "rejected" \/ caught # NoRet

\* C12: the handler calls res.send at most once, and exactly once when it is
\* done; it never lets an exception escape; the first header set is the SVG
\* content type, set before the send; a failed request (no username, fetchLoc
\* threw, a later call threw an Error or another value) is answered with an
\* error image that carries a message, and the error's secondary message when
\* it has one; any other request is answered with the chart of what fetchLoc
\* returned.
C12_ExactlyOneImage ==
    /\ hpc \in {"idle", "awaitFetch", "sent"}
    /\ Len(sends) <= 1
    /\ hpc = "sent" <=> Len(sends) = 1
    /\ caller = "handler" => hpc # "idle"
    /\ Len(sends) = 1 =>
        /\ headers # <<>>
        /\ headers[1] = [name |-> "Content-Type", value |-> "image/svg+xml", sent |-> 0]
        /\ RequestFailed =>
              /\ sends[1].kind = "error"
              /\ sends[1].message \notin {"", Undefined}
              /\ caught # NoRet /\ caught.kind = "error" =>
                    /\ sends[1].message = caught.name
                    /\ "secondaryMessage" \in DOMAIN caught =>
                          sends[1].secondaryMessage = caught.secondaryMessage
              /\ caught # NoRet /\ caught.kind # "error" =>
                    sends[1].message = "An unknown error occurred"
        /\ ~RequestFailed =>
              /\ sends[1].kind = "chart"
              /\ sends[1].data = ret

\* fetchLoc returned, a later call of the try block threw a value that is no
\* Error, and the handler sent one error image.
C12_Witness ==
    /\ hpc = "sent"
    /\ pc = "returned"
    /\ caught = [kind |-> "value"]
    /\ Len(sends) = 1
    /\ sends[1].kind = "error"
    /\ sends[1].message = "An unknown error occurred"

\* The positions of the entries of repository i's payload whose author login
\* is the identity, letter case ignored.
MatchingEntries(i) ==
    {k \in 1..Len(fetch[i].entries) :
        /\ fetch[i].entries[k].hasAuthor
        /\ ToLowerCase(fetch[i].entries[k].login) = ToLowerCase(username)}

\* What repository i is to yield: the first matching entry of its payload, or
\* nothing (null); a rejected request yields no payload.
ExpectedResult(i) ==
    IF fetch[i].result.kind = "rejected" THEN fetch[i].result
    ELSE IF fetch[i].lastArr /\ MatchingEntries(i) # {}
    THEN [kind |-> "contributor",
          c |-> fetch[i].entries[CHOOSE k \in MatchingEntries(i) :
                                     \A j \in MatchingEntries(i) : k <= j]]
    ELSE [kind |-> "null"]

\* C19: a repository whose statistics are in yields the first entry of its
\* payload whose author login equals the identity ignoring letter case
\* (entries without author are passed over), or nothing when there is none;
\* and what fetchLoc returns for one repository is made of that entry's weeks
\* and no others.
C19_FirstMatchIgnoringCase ==
    /\ \A i \in 1..Len(fetch) :
           fetch[i].st = "settled" => fetch[i].result = ExpectedResult(i)
    /\ (Finished /\ Len(fetch) = 1) => ret = Aggregate(<<ExpectedResult(1)>>)

\* A payload with an entry without author, another login, then "u" and "U":
\* the identity "U" got the entry of "u", and its week is in the series.
C19_Witness ==
    /\ Finished
    /\ username = <<"U">>
    /\ Len(fetch) = 1
    /\ Len(fetch[1].entries) = 4
    /\ MatchingEntries(1) = {3, 4}
    /\ fetch[1].result.kind = "contributor"
    /\ fetch[1].result.c = fetch[1].entries[3]
    /\ ret.kind = "series"
    /\ ret.totalAdditions = 2

\* C20: merging happens only after all fetches have settled: whenever the
\* shared week map holds a weekly record, every repository's statistics fetch
\* has settled (none is unissued, in flight or waiting for its retry).
C20_MergeAfterAllSettled ==
    weeklyMap # EmptyMap =>
        \A i \in 1..Len(fetch) : fetch[i].st = "settled"

\* Handling a repository's result raises an error: its request was rejected,
\* or the loop over its weeks list throws (no weeks list, a null week).
Raises(result) ==
    \/ result.kind = "rejected"
    \/ result.kind = "contributor" /\ MergeContributor(EmptyMap, result.c).threw

\* The results of the repositories whose handling raises no error.
NonFailingResults ==
    LET Handled(result) == ~Raises(result)
    IN  SelectSeq(ResultsOf(fetch), Handled)

\* C21: a repository whose handling raises an error, part-way through its
\* weeks list included, leaves nothing in the week map: once fetchLoc is over
\* the week map is the merge of the non-failing repositories' weeks, and the
\* series returned is built from it.
C21_FailedRepoExcluded ==
    Finished =>
        /\ weeklyMap = MergeAllCaught(EmptyMap, NonFailingResults)
        /\ ret = BuildSeries(MergeAllCaught(EmptyMap, NonFailingResults))


\* The repository an entry names: owner and name without regard to letter
\* case, as the hosting service resolves them.
RepositoryOf(r) == ToLowerCase(RepoKey(r))

\* C27: every distinct repository is counted at most once, a repository that
\* is reachable through the user's listing and through a named organization
\* whose supplied name differs from the owner login only in letter case
\* included, and an organization named twice: no two entries of the
\* deduplicated list name the same repository, and so no two statistics
\* fetches are for the same repository.
C27_RepositoryCountedOnce ==
    DiscoveryDone =>
        /\ \A i, j \in 1..Len(repos) :
              i # j => RepositoryOf(repos[i]) # RepositoryOf(repos[j])
        /\ Len(fetch) <= Cardinality({RepositoryOf(rawRepos[i]) : i \in 1..Len(rawRepos)})

\* An organization named twice with the same spelling is listed twice and its
\* repository is kept once.
C27_SameSpellingOnce ==
    (DiscoveryDone /\ orgs = <<<<"a">>, <<"a">>>>) =>
        \A i, j \in 1..Len(repos) :
            i # j => RepositoryOf(repos[i]) # RepositoryOf(repos[j])

\* The options renderLocChart reads from its options object.
RendererOptionNames ==
    {"theme", "line_color", "area_color", "point_color", "hide_border",
     "custom_title", "months", "title_color", "text_color", "bg_color",
     "border_color"}

\* C18: every option of a request reaches the renderer: when the handler has
\* sent a chart, each option the request carried (a months window, a theme
\* and a border color among them) is in the options object the renderer was
\* called with, with the request's value (the border flag parsed), so that a
\* request with a months window is drawn with that window.
C18_OptionsReachRenderer ==
    (hpc = "sent" /\ Len(sends) = 1 /\ sends[1].kind = "chart") =>
        /\ \A n \in RendererOptionNames \cap QueryNames :
               query[n] # Undefined =>
                   Opt(sends[1].options, n) =
                       IF n = "hide_border" THEN ParseBoolean(query[n]) ELSE query[n]
        /\ HasWindow(query) => HasWindow(sends[1].options)

----------------------------------------------------------------------------
(* renderLocChart called on its own: the series, options and times the     *)
(* model draws from, and the call.                                         *)

WeeklyRecord(week, additions, deletions, commits) ==
    [week |-> week, additions |-> additions, deletions |-> deletions,
     commits |-> commits]

\* The series fetchLoc returns for these weekly records (ascending by week,
\* none all-zero): the totals are the sums and netLines their difference.
SeriesOf(ws) ==
    [kind |-> "series", weeklyData |-> ws,
     totalAdditions |-> TotalOf(ws, "additions"),
     totalDeletions |-> TotalOf(ws, "deletions"),
     totalCommits |-> TotalOf(ws, "commits"),
     netLines |-> TotalOf(ws, "additions") - TotalOf(ws, "deletions")]

\* The number of weekly records of the long series of the model.
MaxPoints == 130

\* The day of the long series' first week.
FirstWeek == 10

\* 604800 seconds, in days.
WeekDays == 7

\* A week after week for MaxPoints weeks, deletions above additions now and
\* then.
LongSeries ==
    SeriesOf([i \in 1..MaxPoints |->
        WeeklyRecord(FirstWeek + WeekDays * (i - 1), ((i * 37) % 50) + 1,
                     (i * 13) % 60, 1 + (i % 3))])

\* The last week of the long series, the time the other series end at.
LastWeek == FirstWeek + WeekDays * (MaxPoints - 1)

\* The last n weekly records of the long series.
SeriesOfLast(n) ==
    SeriesOf(SubSeq(LongSeries.weeklyData, MaxPoints - n + 1, MaxPoints))

\* Two weekly records, a week apart: (100, 20) then (50, 10).
ExampleSeries ==
    SeriesOf(<<WeeklyRecord(LastWeek - 2 * WeekDays, 100, 20, 3),
               WeeklyRecord(LastWeek - WeekDays, 50, 10, 2)>>)

\* A week of commits without a line added or deleted.
ZeroLinesSeries == SeriesOf(<<WeeklyRecord(LastWeek, 0, 0, 1)>>)

\* A week of commits that only deleted lines.
DeletionsOnlySeries == SeriesOf(<<WeeklyRecord(LastWeek, 0, 20, 1)>>)

\* Two weeks with as many lines deleted as added: the cumulative value stays 0.
FlatSeries ==
    SeriesOf(<<WeeklyRecord(LastWeek - WeekDays, 4, 4, 1),
               WeeklyRecord(LastWeek, 3, 3, 1)>>)

\* Two months: 40 lines added and 10 deleted, then 10 added and 20 deleted.
PolaritySeries ==
    SeriesOf(<<WeeklyRecord(LastWeek - 8 * WeekDays, 40, 10, 1),
               WeeklyRecord(LastWeek, 10, 20, 1)>>)

\* The series of the model: empty, one record, the two records of the
\* example, three records with more deletions than additions at first, the
\* last 8, 15 and 23 records of the long one, a week without lines, a week of deletions, a flat
\* one, one with the same figure added in a month and deleted in another, and
\* the long one.
SeriesInputs ==
    {SeriesOf(<<>>),
     SeriesOf(<<WeeklyRecord(LastWeek, 5, 2, 1)>>),
     ExampleSeries,
     SeriesOf(<<WeeklyRecord(LastWeek - 6 * WeekDays, 10, 40, 1),
                WeeklyRecord(LastWeek - 3 * WeekDays, 30, 5, 2),
                WeeklyRecord(LastWeek, 1, 0, 1)>>),
     SeriesOfLast(8), SeriesOfLast(15), SeriesOfLast(23),
     ZeroLinesSeries, DeletionsOnlySeries, FlatSeries, PolaritySeries,
     LongSeries}

\* The months options of the model: none, 0, and windows of 1, 3, 12, 13 and
\* 24 months.
MonthsInputs == {Undefined, "0", "1", "3", "12", "13", "24"}

\* The options of the model: a months option alone, or with a theme, a
\* background color and a title.
OptionsInputs ==
    {[NoQuery EXCEPT !.months = m] : m \in MonthsInputs}
    \cup {[NoQuery EXCEPT !.months = m, !.theme = "dark", !.bg_color = "000000",
                          !.custom_title = "T"] : m \in MonthsInputs}

\* Date.now(): a week after the long series' last week, and more than a year
\* after it.
NowInputs == {LastWeek + WeekDays, LastWeek + YearDays + WindowDaysPerMonth}

RenderInit ==
    /\ variant = "loc"
    /\ NothingCalled
    /\ renderer \in Renderers
    /\ data \in SeriesInputs
    /\ options \in OptionsInputs
    /\ now \in NowInputs
    /\ svg = NoRet

\* renderLocChart(data, options) is called and returns.
RenderCall ==
    /\ svg = NoRet
    /\ svg' = RenderLocChart(renderer, data, options, now)
    /\ UNCHANGED <<variant, caller, username, include_orgs, pc, orgs, orgIdx, srcLog,
                   rawRepos, repos, fetch, cur, completed, weeklyMap, ret, listReqs,
                   hpc, sends, query, headers, caught, renderer, data, options, now>>

RenderNext == RenderCall

RenderSpec == RenderInit /\ [][RenderNext]_vars

\* renderLocChart has returned.
Rendered == svg # NoRet

\* The renderers of the cumulative mode, and those with a months window.
CumulativeRenderers == {"spline", "basic", "sqrt"}
WindowRenderers == {"spline", "sqrt"}

----------------------------------------------------------------------------
(* The claims about the renderers, under RenderSpec. *)

\* C13: for a series with no weekly records every renderer returns the image
\* of the canvas' size that holds the background rect and the text "No data
\* available" and nothing else (no path, no dot, no label, no bar), whatever
\* the options.
C13_EmptySeriesNoData ==
    (Rendered /\ Len(data.weeklyData) = 0) =>
        /\ svg.kind = "nodata"
        /\ svg.width = Width /\ svg.height = Height
        /\ Len(svg.elements) = 2
        /\ svg.elements[1] = [tag |-> "rect", fill |-> BgColor(renderer, options)]
        /\ svg.elements[2] = [tag |-> "text", fill |-> TextColor(renderer, options),
                              text |-> "No data available"]
        /\ DOMAIN svg = {"kind", "width", "height", "elements"}

\* An area chart was asked for an empty series, with a window and a theme.
C13_Witness ==
    /\ Rendered
    /\ Len(data.weeklyData) = 0
    /\ renderer = "sqrt"
    /\ options.months = "3" /\ options.theme = "dark"
    /\ svg.kind = "nodata"

\* The candidates the labels of the returned chart were picked from.
CandidatesOfChart ==
    Candidates(renderer, options, svg.points[1].week,
               svg.points[Len(svg.points)].week, now)

\* C14: in cumulative mode every two picked x labels are MIN_LABEL_PX (85 px)
\* or more apart and no picked label is left of the plot's left edge, for
\* every series and every window; the labels are in ascending order, each at
\* the x of its week, and the last candidate is always picked.
C14_LabelsSpaced ==
    (Rendered /\ renderer \in CumulativeRenderers /\ svg.kind = "chart") =>
        LET ls == svg.xLabels
            minTime == svg.points[1].week
            maxTime == svg.points[Len(svg.points)].week
        IN  /\ \A i, j \in 1..Len(ls) : i < j => ls[j].x - ls[i].x >= MIN_LABEL_PX
            /\ \A i \in 1..Len(ls) :
                /\ ls[i].x >= PaddingLeft
                /\ ls[i].x <= PaddingLeft + ChartW
                /\ ls[i].x = ToX(renderer, ls[i].week, minTime, TimeRange(minTime, maxTime))
                /\ \E c \in 1..Len(CandidatesOfChart) : CandidatesOfChart[c] = ls[i].week
            /\ Len(ls) >= 1
            /\ ls[Len(ls)].week = maxTime

\* The long series on the square-root scale, without a window: three labels
\* or more were picked and some candidate was left out.
C14_Witness ==
    /\ Rendered
    /\ renderer = "sqrt"
    /\ data = LongSeries
    /\ options.months = Undefined
    /\ svg.kind = "chart"
    /\ Len(svg.points) = MaxPoints
    /\ Len(svg.xLabels) >= 3
    /\ Len(svg.xLabels) < Len(CandidatesOfChart)

\* The sum of (additions - deletions) over the records 1..k of a series.
NetUpTo(ws, k) ==
    TotalOf(SubSeq(ws, 1, k), "additions") - TotalOf(SubSeq(ws, 1, k), "deletions")

\* The shared map of fetchLoc after merging the two weeks of the example.
ExampleMap ==
    [k \in {"1", "2"} |->
        IF k = "1" THEN [a |-> 100, d |-> 20, c |-> 3] ELSE [a |-> 50, d |-> 10, c |-> 2]]

\* C15: in cumulative mode the value of the point of the k-th weekly record
\* is the sum of (additions - deletions) over the records 1..k of the full
\* series, windowed or not, and the last point's value is netLines; for the
\* records (100, 20) then (50, 10) the values are 80 then 120 and the totals
\* are 150, 30 and 120, in the renderer and in step 3 of fetchLoc.
C15_PrefixSums ==
    (Rendered /\ renderer \in CumulativeRenderers /\ svg.kind = "chart") =>
        LET ws == data.weeklyData
            ps == svg.points
        IN  /\ \A i \in 1..Len(ps) :
                \E k \in 1..Len(ws) :
                    /\ ws[k].week = ps[i].week
                    /\ ps[i].value = NetUpTo(ws, k)
            /\ ps[Len(ps)].value = data.netLines
            /\ data = ExampleSeries =>
                /\ [i \in 1..Len(ps) |-> ps[i].value] = <<80, 120>>
                /\ svg.stats = [additions |-> 150, deletions |-> 30, net |-> 120]
                /\ LET built == BuildSeries(ExampleMap)
                   IN  /\ built.totalAdditions = 150
                       /\ built.totalDeletions = 30
                       /\ built.netLines = 120
                       /\ [i \in 1..2 |-> CumulativePoints(built.weeklyData, 0)[i].value]
                              = <<80, 120>>

\* The example was drawn on the linear scale.
C15_Witness ==
    /\ Rendered
    /\ renderer = "spline"
    /\ data = ExampleSeries
    /\ svg.kind = "chart"
    /\ Len(svg.points) = 2
    /\ svg.points[1].value = 80 /\ svg.points[2].value = 120
    /\ svg.stats.net = 120

\* The weeks of a list of records or points.
WeeksOf(ps) == {ps[i].week : i \in 1..Len(ps)}

\* The weeks of the series at or after now - months * 30 days.
WeeksInWindow ==
    {w \in WeeksOf(data.weeklyData) :
        w >= now - ToNumber(options.months) * WindowDaysPerMonth}

\* C16: in cumulative mode a non-empty series is drawn with one visible point
\* or more; with a positive months window (the renderers that have one) the
\* visible points are exactly those whose week is at or after now - months *
\* 30 days, or all points of the series when there is none such; without a
\* window they are all points.
C16_WindowWithFallback ==
    (Rendered /\ renderer \in CumulativeRenderers /\ Len(data.weeklyData) > 0) =>
        /\ svg.kind = "chart"
        /\ Len(svg.points) >= 1
        /\ \A i \in 1..(Len(svg.points) - 1) : svg.points[i].week < svg.points[i + 1].week
        /\ Cardinality(WeeksOf(svg.points)) = Len(svg.points)
        /\ IF renderer \in WindowRenderers /\ HasWindow(options)
           THEN WeeksOf(svg.points) =
                    IF WeeksInWindow = {} THEN WeeksOf(data.weeklyData) ELSE WeeksInWindow
           ELSE WeeksOf(svg.points) = WeeksOf(data.weeklyData)

\* A window of three months long after the last week of the series: all
\* three records are drawn.
C16_Witness ==
    /\ Rendered
    /\ renderer = "sqrt"
    /\ options.months = "3"
    /\ Len(data.weeklyData) = 3
    /\ WeeksInWindow = {}
    /\ svg.kind = "chart"
    /\ Len(svg.points) = 3

\* A window of one month a week after the last week of the long series: some
\* of its points are drawn, the others are not.
C16_Clipped ==
    /\ Rendered
    /\ renderer = "spline"
    /\ options.months = "1"
    /\ data = LongSeries
    /\ svg.kind = "chart"
    /\ Len(svg.points) > 1
    /\ Len(svg.points) < MaxPoints

\* The image renderLocChart returns for the same series at the same time with
\* the months option m.
ChartWithMonths(m) ==
    RenderLocChart(renderer, data, [options EXCEPT !.months = m], now)

\* C17: the window alters no totals: for a series, the totals of the stats
\* summary are the series' totals, and they, the cumulative value of every
\* point that is visible and the sums of every month that is drawn are the
\* same for every value of the months option, none included.
C17_WindowKeepsTotals ==
    (Rendered /\ svg.kind = "chart") =>
        /\ svg.stats = [additions |-> data.totalAdditions,
                        deletions |-> data.totalDeletions, net |-> data.netLines]
        /\ \A m \in MonthsInputs :
            LET other == ChartWithMonths(m)
            IN  /\ other.kind = "chart"
                /\ other.stats = svg.stats
                /\ \A i \in 1..Len(svg.points), j \in 1..Len(other.points) :
                       svg.points[i].week = other.points[j].week
                           => svg.points[i] = other.points[j]
                /\ \A i \in 1..Len(svg.bars), j \in 1..Len(other.bars) :
                       (/\ svg.bars[i].year = other.bars[j].year
                        /\ svg.bars[i].month = other.bars[j].month)
                           => svg.bars[i] = other.bars[j]

\* A window of one month cut the first of three records off: the two points
\* drawn carry the first record's net lines in their values, and the totals
\* are those of the three records.
C17_Witness ==
    /\ Rendered
    /\ renderer = "spline"
    /\ options.months = "1"
    /\ Len(data.weeklyData) = 3
    /\ svg.kind = "chart"
    /\ Len(svg.points) = 2
    /\ svg.points[1].value # svg.points[1].additions - svg.points[1].deletions
    /\ svg.points = SubSeq(ChartWithMonths(Undefined).points, 2, 3)
    /\ svg.stats.additions = data.totalAdditions

\* A window of three months on the monthly bars of the long series.
C17_BarsWitness ==
    /\ Rendered
    /\ renderer = "bar"
    /\ options.months = "3"
    /\ data = LongSeries
    /\ svg.kind = "chart"
    /\ Len(svg.bars) = 3
    /\ Len(ChartWithMonths(Undefined).bars) > 3

\* The month boundaries (first days of months) within the visible time range
\* of the returned chart.
VisibleMonthBoundaries ==
    {MonthStarts[k] : k \in 0..MaxMonthIndex} \cap
        (svg.points[1].week)..(svg.points[Len(svg.points)].week)

\* The candidates of the returned chart, as a set.
CandidateSet == {CandidatesOfChart[c] : c \in 1..Len(CandidatesOfChart)}

\* A month boundary is that of a January.
IsJanuary(b) == GetMonth(b) = 0

\* C22: the label candidates in cumulative mode are month boundaries of the
\* visible range and the final point's time, which is always one; with a
\* months window in effect (any positive months value) every month boundary
\* of the visible range is a candidate; without one, a boundary within the
\* last year is a candidate and an older one is a candidate exactly when it
\* is a January's.
C22_LabelCandidates ==
    (Rendered /\ renderer \in CumulativeRenderers /\ svg.kind = "chart") =>
        /\ svg.points[Len(svg.points)].week \in CandidateSet
        /\ CandidateSet \subseteq
               VisibleMonthBoundaries \cup {svg.points[Len(svg.points)].week}
        /\ IF renderer \in WindowRenderers /\ HasWindow(options)
           THEN VisibleMonthBoundaries \subseteq CandidateSet
           ELSE \A b \in VisibleMonthBoundaries :
                    b \in CandidateSet <=> (b >= now - YearDays \/ IsJanuary(b))

\* C22, with the months mode of the code: every month boundary of the visible
\* range is a candidate when the smoothed chart is given a months option of
\* 12 or less; in every other case the boundaries older than a year are
\* thinned to the Januaries.
C22_CandidatesAsCoded ==
    (Rendered /\ renderer \in CumulativeRenderers /\ svg.kind = "chart") =>
        /\ svg.points[Len(svg.points)].week \in CandidateSet
        /\ CandidateSet \subseteq
               VisibleMonthBoundaries \cup {svg.points[Len(svg.points)].week}
        /\ IF /\ renderer = "spline"
              /\ IsNumber(options.months)
              /\ ToNumber(options.months) # 0
              /\ ToNumber(options.months) <= 12
           THEN VisibleMonthBoundaries \subseteq CandidateSet
           ELSE \A b \in VisibleMonthBoundaries :
                    b \in CandidateSet <=> (b >= now - YearDays \/ IsJanuary(b))

\* The window of one month clipped every point of the long series, which is
\* drawn in full by the smoothed chart: a month boundary older than a year
\* that is no January's is a candidate.
C22_Witness ==
    /\ Rendered
    /\ renderer = "spline"
    /\ options.months = "1"
    /\ data = LongSeries
    /\ svg.kind = "chart"
    /\ \E b \in VisibleMonthBoundaries :
           b < now - YearDays /\ ~IsJanuary(b) /\ b \in CandidateSet

\* A window of 24 months on the smoothed chart: a month boundary of the
\* visible range older than a year is no candidate.
C22_Thinned ==
    /\ Rendered
    /\ renderer = "spline"
    /\ options.months = "24"
    /\ data = LongSeries
    /\ svg.kind = "chart"
    /\ \E b \in VisibleMonthBoundaries : b \notin CandidateSet

\* C23: the markers of a cumulative chart are visible points, the final
\* point among them, and for 8 visible points or more there are 8 to 12
\* markers, whatever the length of the series.
C23_MarkerSampling ==
    (Rendered /\ renderer \in CumulativeRenderers /\ svg.kind = "chart") =>
        /\ \A d \in 1..Len(svg.dots) : \E i \in 1..Len(svg.points) :
               svg.dots[d] = svg.points[i]
        /\ svg.dots[Len(svg.dots)] = svg.points[Len(svg.points)]
        /\ Len(svg.points) >= 8 => (Len(svg.dots) >= 8 /\ Len(svg.dots) <= 12)

\* C24: the layout never divides by zero for a well-formed series, a single
\* point, points that all have the same cumulative value and months without
\* additions and deletions included: a series with data yields a chart, and
\* the time range, the value range, the tick and marker counts, the bar
\* maxima, their sum and the month count it divides by are all at least 1.
C24_DivisorsPositive ==
    (Rendered /\ data.weeklyData # <<>>) =>
        /\ svg.kind = "chart"
        /\ renderer \in CumulativeRenderers =>
              /\ svg.scale.timeRange >= 1
              /\ svg.scale.valRange >= 1
              /\ svg.scale.yTicks >= 1
              /\ svg.scale.dotCount >= 1
              /\ \A k \in 1..Len(svg.yLabels) : svg.yLabels[k].den >= 1
        /\ renderer = "bar" =>
              /\ svg.scale.maxAdd >= 1
              /\ svg.scale.maxDel >= 1
              /\ svg.scale.maxVal >= 1
              /\ svg.scale.ratioSum >= 1
              /\ svg.scale.n >= 1
              /\ svg.scale.baseline.den >= 1
              /\ svg.scale.unit >= 1

\* Two points with the same cumulative value have been drawn as an area chart.
C24_Witness ==
    /\ Rendered
    /\ renderer \in CumulativeRenderers
    /\ svg.kind = "chart"
    /\ Len(svg.points) = 2
    /\ svg.points[1].value = svg.points[2].value

\* A single point has been drawn as an area chart.
C24_SinglePoint ==
    /\ Rendered
    /\ renderer \in CumulativeRenderers
    /\ svg.kind = "chart"
    /\ Len(svg.points) = 1

\* A month without additions and deletions has been drawn as a bar chart.
C24_ZeroMonth ==
    /\ Rendered
    /\ renderer = "bar"
    /\ svg.kind = "chart"
    /\ \E k \in 1..Len(svg.bars) :
          svg.bars[k].additions = 0 /\ svg.bars[k].deletions = 0

\* The largest of a set of line counts, taken as 1 when none reaches 1.
LargestOrOne(ns) ==
    IF \E x \in ns : x >= 1 THEN CHOOSE m \in ns : \A x \in ns : x <= m ELSE 1

\* The additions and the deletions of the months of the drawn bar chart.
VisibleAdditions == {svg.bars[k].additions : k \in 1..Len(svg.bars)}
VisibleDeletions == {svg.bars[k].deletions : k \in 1..Len(svg.bars)}

\* Every addition bar lies between the plot top and the baseline and ends on
\* the baseline, every deletion bar starts on the baseline and ends above the
\* plot bottom; offsets below the plot top in units of 1 / svg.scale.unit px.
BarsOnTheirSide ==
    LET base == svg.scale.baseline.num * svg.scale.maxVal
    IN  /\ svg.scale.unit = svg.scale.baseline.den * svg.scale.maxVal
        /\ \A k \in 1..Len(svg.rects) :
              /\ svg.rects[k].hasAdd = (svg.bars[k].additions > 0)
              /\ svg.rects[k].hasDel = (svg.bars[k].deletions > 0)
              /\ svg.rects[k].hasAdd =>
                    /\ svg.rects[k].addY >= 0
                    /\ svg.rects[k].addH > 0
                    /\ svg.rects[k].addY + svg.rects[k].addH = base
              /\ svg.rects[k].hasDel =>
                    /\ svg.rects[k].delY = base
                    /\ svg.rects[k].delH > 0
                    /\ svg.rects[k].delY + svg.rects[k].delH <= ChartH * svg.scale.unit

\* C25 (as stated): in bar mode the baseline lies maxAdditions /
\* (maxAdditions + maxDeletions) of the plot height below the plot top, the
\* maxima being those of the visible months, and the bars stay on their side
\* of it.
C25_BaselineFraction ==
    (Rendered /\ renderer = "bar" /\ svg.kind = "chart") =>
        LET maxA == MaxOf(VisibleAdditions)
            maxD == MaxOf(VisibleDeletions)
        IN  /\ maxA + maxD > 0 =>
                  svg.scale.baseline.num * (maxA + maxD)
                      = ChartH * maxA * svg.scale.baseline.den
            /\ BarsOnTheirSide

\* C25 (amended): the same with each maximum taken as at least 1, so that a
\* chart without additions (or without deletions) keeps a baseline inside the
\* plot.
C25_BaselineFloorOne ==
    (Rendered /\ renderer = "bar" /\ svg.kind = "chart") =>
        LET maxA == LargestOrOne(VisibleAdditions)
            maxD == LargestOrOne(VisibleDeletions)
        IN  /\ svg.scale.baseline.num * (maxA + maxD)
                  = ChartH * maxA * svg.scale.baseline.den
            /\ BarsOnTheirSide

\* A bar chart of two months with both kinds of bars has been drawn.
C25_Witness ==
    /\ Rendered
    /\ renderer = "bar"
    /\ svg.kind = "chart"
    /\ Len(svg.bars) >= 2
    /\ \A k \in 1..Len(svg.rects) : svg.rects[k].hasAdd /\ svg.rects[k].hasDel
    /\ svg.scale.maxAdd # svg.scale.maxDel

\* A bar chart of months that only deleted lines has been drawn.
C25_NoAdditions ==
    /\ Rendered
    /\ renderer = "bar"
    /\ svg.kind = "chart"
    /\ \A k \in 1..Len(svg.bars) : svg.bars[k].additions = 0
    /\ \E k \in 1..Len(svg.bars) : svg.bars[k].deletions > 0

\* The ticks of the drawn area chart are evenly spaced from lo to hi: the
\* first is lo, the last is hi, and neighbours differ by the same amount.
TicksSpan(lo, hi) ==
    LET ts == svg.yLabels
        n == Len(ts)
    IN  /\ n >= 2
        /\ \A k \in 1..n : ts[k].den = ts[1].den /\ ts[k].den >= 1
        /\ ts[1].num = lo * ts[1].den
        /\ ts[n].num = hi * ts[n].den
        /\ \A k \in 1..(n - 1) : ts[k + 1].num - ts[k].num = ts[2].num - ts[1].num

\* The cumulative values of the visible points of the drawn area chart.
VisibleValues == {svg.points[i].value : i \in 1..Len(svg.points)}

C26_Negative ==
    /\ Rendered
    /\ renderer \in CumulativeRenderers
    /\ svg.kind = "chart"
    /\ \E v \in VisibleValues : v < 0
    /\ \E v \in VisibleValues : v > 0

\* C28: bar mode draws additions and deletions at one scale of pixels per
\* line: a month with A additions and a month with A deletions get bars of
\* the same height.
C28_CommonBarScale ==
    (Rendered /\ renderer = "bar" /\ svg.kind = "chart") =>
        \A j, k \in 1..Len(svg.bars) :
            (svg.bars[j].additions = svg.bars[k].deletions /\ svg.bars[j].additions > 0)
                => svg.rects[j].addH = svg.rects[k].delH

\* The two kinds of bars have the same scale when the largest month of
\* additions equals the largest month of deletions.
C28_EqualMaxima ==
    (Rendered /\ renderer = "bar" /\ svg.kind = "chart"
        /\ svg.scale.maxAdd = svg.scale.maxDel) =>
        \A j, k \in 1..Len(svg.bars) :
            svg.bars[j].additions = svg.bars[k].deletions
                => svg.rects[j].addH = svg.rects[k].delH

====
